---- MODULE Spec2Model ----
(***************************************************************************)
(* Task queue (scheduler/task-queue.ts) and deal scheduler                 *)
(* (scheduler/scheduler.ts) of amazon-deal-monitor.                        *)
(*                                                                         *)
(* Task objects live in a heap `tasks` keyed by task id; the queue's       *)
(* pending list and running map hold references (ids) to them, exactly as  *)
(* the TypeScript arrays and maps hold references to the Task objects.     *)
(* Wall-clock values (createdAt, startedAt, completedAt, durations) are    *)
(* abstracted to "stamped" / undefined: no claim checked here depends on   *)
(* the value of a Date.                                                    *)
(***************************************************************************)
EXTENDS Integers, Sequences, FiniteSets, TLC

(* ------------------------------ bounds --------------------------------- *)
MaxTasks == 3          \* task objects ever created in one run
MaxPriority == 2       \* priorities are drawn from 1..MaxPriority
MaxRetryLimit == 2     \* maxRetries passed to addTask is in 0..MaxRetryLimit
MaxCount == 3          \* getNextTasks(count) is called with count in 0..MaxCount
MaxSchedulerTasks == 2 \* task objects created in one run of the scheduler
MaxBatch == 2          \* batchSize and maxConcurrentScrapes are in 1..MaxBatch
MaxCycles == 2         \* runCycle invocations that overlap in time
MaxPrice == 2          \* prices are drawn from -1..MaxPrice
MaxSeries == 2         \* entries added to one key between two clears
MaxWindowSeries == 3   \* the same, where the entries' dates vary
MaxAdds == 1002        \* entries added to the one key that outgrows its limit
MaxBatchLen == 2       \* products, and options, handed to one analyzeBatch call
MaxTaskDurations == 100 \* if (this.taskDurations.length > 100) shift()
MaxDeals == 2          \* deals handed to one filter call
MaxSortLen == 3        \* deals handed to one sortBy or getTopDeals call
MaxTop == 4            \* the largest count asked of getTopDeals

TaskIds == 1..MaxTasks
Priorities == 1..MaxPriority
RetryLimits == 0..MaxRetryLimit
Errors == {"timeout", "captcha"}
TaskTypes == {"product", "category"}
Marketplaces == {"DE", "FR"}
Cycles == 1..MaxCycles
Prices == -1..MaxPrice
WindowPrices == 1..MaxPrice
TimeSamples == {0, 1, 31}   \* dates: 30 and 31 days apart, and a day apart

Undefined == "undefined"
Stamped == "date"
Null == 0              \* no task id is 0

Min(a, b) == IF a < b THEN a ELSE b

\* A quotient of two Decimal values, and the JavaScript number it is turned
\* into, is kept exact as a fraction num / den with den > 0 (Decimal rounds
\* a quotient to 20 significant digits, toNumber to the nearest double).
Ratio(n, d) == [num |-> n, den |-> d]
Num(n) == Ratio(n, 1)
RatioEq(a, b) == a.num * b.den = b.num * a.den
RatioLt(a, b) == a.num * b.den < b.num * a.den

VARIABLES
    tasks,            \* heap of Task objects: id -> Task
    queue,            \* TaskQueue.queue: pending list (ids, head first)
    runningTasks,     \* TaskQueue.runningTasks: key set of the map
    completedTasks,   \* TaskQueue.completedTasks: id -> TaskResult
    taskDurations,    \* TaskQueue.taskDurations: durations, oldest first
    config,           \* DealScheduler.config: batchSize, maxConcurrentScrapes
    isRunning,        \* DealScheduler.isRunning (cronJob is set exactly then)
    stats,            \* DealScheduler.stats (the field totalTasks, see updateStats)
    cyclePc,          \* per runCycle invocation in flight: "idle" or "awaiting"
    cycleTasks,       \* per runCycle invocation: the batch `tasks` it dequeued
    proc,             \* per invocation and task: where processTask(task) stands
    handedOut,        \* history: id -> times returned by a dequeue
    failures,         \* history: id -> failTask calls that found the task running
    requeues,         \* history: id -> times failTask re-inserted the task
    insertionOrder,   \* history: pending ids in the order of their insertion
    durationLog,      \* history: durations of the completions since clearAll
    history,          \* PriceHistoryManager.history: key -> entries, oldest first
    lastPrices,       \* PriceHistoryManager.lastPrices: key -> price
    now,              \* the clock that new Date() reads, in days
    alert,            \* what the latest addPriceEntry call returned
    added,            \* history: key -> entries added since the key was cleared
    tierConfigs,      \* DealClassifier.tierConfigs: tier -> band
    classification,   \* what the latest classify call was given and returned
    requested,        \* history: tier -> the config last passed for the tier
    products,         \* the products a caller hands to the analyzer
    optionsList,      \* the analysis options the caller hands over with them
    deals,            \* the deals a caller hands to the deal filter
    dealFilter,       \* the filter the caller hands over with them
    outcome           \* what the latest of these calls returned or threw

queueVars == <<tasks, queue, runningTasks, completedTasks, taskDurations>>
schedVars == <<config, isRunning, stats, cyclePc, cycleTasks, proc>>
histVars == <<handedOut, failures, requeues, insertionOrder, durationLog>>
priceVars == <<history, lastPrices, now, alert, added>>
classifierVars == <<tierConfigs, classification, requested>>
argVars == <<products, optionsList, deals, dealFilter>>
analyzerVars == <<classifierVars, argVars, outcome>>
vars == <<tasks, queue, runningTasks, completedTasks, taskDurations,
          config, isRunning, stats, cyclePc, cycleTasks, proc,
          handedOut, failures, requeues, insertionOrder, durationLog,
          history, lastPrices, now, alert, added,
          tierConfigs, classification, requested,
          products, optionsList, deals, dealFilter, outcome>>

\* PriceHistoryManager.getKey, `${asin}:${marketplace}`: one string per pair,
\* as no marketplace code holds a colon.
getKey(asin, marketplace) == <<asin, marketplace>>

PriceKeys == {getKey("B01", "DE"), getKey("B01", "FR"), getKey("B02", "DE")}

(* ----------------------------- DealClassifier -------------------------- *)
\* The tier bands the analyzer is constructed with.  An optional bound is a
\* sequence: empty when the field is undefined.  Margin and ROI are numbers
\* of percent.
TierConfigs ==
    [low    |-> [minMargin |-> 25, maxMargin |-> <<35>>,
                 minRoi |-> 100, maxRoi |-> <<150>>],
     medium |-> [minMargin |-> 35, maxMargin |-> <<50>>,
                 minRoi |-> 150, maxRoi |-> <<250>>],
     high   |-> [minMargin |-> 50, maxMargin |-> <<>>,
                 minRoi |-> 250, maxRoi |-> <<>>]]

checkTier(configs, metrics, tier) ==
    LET cfg == configs[tier]
    IN IF RatioLt(metrics.margin, Num(cfg.minMargin)) THEN FALSE
       ELSE IF /\ cfg.maxMargin # <<>>
               /\ RatioLt(Num(cfg.maxMargin[1]), metrics.margin) THEN FALSE
       ELSE IF RatioLt(metrics.roi, Num(cfg.minRoi)) THEN FALSE
       ELSE IF /\ cfg.maxRoi # <<>>
               /\ RatioLt(Num(cfg.maxRoi[1]), metrics.roi) THEN FALSE
       ELSE TRUE

\* classify trying the bands from the lowest tier up.
classifyLowFirst(configs, metrics) ==
    IF checkTier(configs, metrics, "low")
    THEN [tier |-> "low", qualifies |-> TRUE]
    ELSE IF checkTier(configs, metrics, "medium")
    THEN [tier |-> "medium", qualifies |-> TRUE]
    ELSE IF checkTier(configs, metrics, "high")
    THEN [tier |-> "high", qualifies |-> TRUE]
    ELSE [tier |-> "low", qualifies |-> FALSE]

\* classify marking the deal that no band matched as qualifying.
classifyAlwaysQualifies(configs, metrics) ==
    IF checkTier(configs, metrics, "high")
    THEN [tier |-> "high", qualifies |-> TRUE]
    ELSE IF checkTier(configs, metrics, "medium")
    THEN [tier |-> "medium", qualifies |-> TRUE]
    ELSE [tier |-> "low", qualifies |-> TRUE]

classify(configs, metrics) ==
    IF checkTier(configs, metrics, "high")
    THEN [tier |-> "high", qualifies |-> TRUE]
    ELSE IF checkTier(configs, metrics, "medium")
    THEN [tier |-> "medium", qualifies |-> TRUE]
    ELSE IF checkTier(configs, metrics, "low")
    THEN [tier |-> "low", qualifies |-> TRUE]
    ELSE [tier |-> "low", qualifies |-> FALSE]

\* DealAnalyzer.analyze from the metrics on (its lines 50 to 67), as far as
\* the scheduler reads its result: the deal's
\* metrics and the tier the classifier gave it (the qualifies flag is
\* dropped).  The scraped price and the cost price (the clock modulo 100 in
\* processTask) are inputs, so the metrics are drawn from samples on both
\* sides of every bound of the bands.
MarginSamples == {10, 30, 40, 60}
RoiSamples == {50, 120, 200, 300}
MetricsSamples ==
    [margin : {Num(n) : n \in MarginSamples}, roi : {Num(n) : n \in RoiSamples}]

analyzeMetrics(configs, metrics) ==
    [tier |-> classify(configs, metrics).tier, metrics |-> metrics]

\* updateTierConfig, { ...this.tierConfigs[tier], ...config }: a field the
\* config holds takes the config's value, a field it does not hold keeps the
\* value it had.  A config is a record of the fields it holds.
BandFields == {"minMargin", "maxMargin", "minRoi", "maxRoi"}

updateTierConfig(configs, tier, cfg) ==
    [configs EXCEPT ![tier] =
        [f \in BandFields |-> IF f \in DOMAIN cfg THEN cfg[f] ELSE @[f]]]

\* DealAnalyzer.updateTierConfigs: Object.entries(...).forEach over the three
\* tiers of the record, one updateTierConfig call for each.
Tiers == {"low", "medium", "high"}

RECURSIVE updateTierConfigsLoop(_, _, _)
updateTierConfigsLoop(configs, newConfigs, entries) ==
    IF entries = <<>> THEN configs
    ELSE updateTierConfigsLoop(
             updateTierConfig(configs, Head(entries), newConfigs[Head(entries)]),
             newConfigs, Tail(entries))

updateTierConfigs(configs, newConfigs) ==
    updateTierConfigsLoop(configs, newConfigs, <<"low", "medium", "high">>)

\* The configs callers pass: DealTierConfig values, minMargin and minRoi
\* always held, maxMargin and maxRoi optional.  The three bands of the tests
\* and a band without upper bounds that overlaps all of them.
ConfigSamples ==
    {[minMargin |-> 25, maxMargin |-> <<35>>, minRoi |-> 100, maxRoi |-> <<150>>],
     [minMargin |-> 35, maxMargin |-> <<50>>, minRoi |-> 150, maxRoi |-> <<250>>],
     [minMargin |-> 50, minRoi |-> 250],
     [minMargin |-> 25, minRoi |-> 100]}

\* metrics on, below and above every bound of the sample bands.
ClassifierMargins == {10, 25, 30, 35, 40, 50, 60}
ClassifierRois == {50, 100, 120, 150, 200, 250, 300}
ClassifierMetrics ==
    [margin : {Num(n) : n \in ClassifierMargins},
     roi : {Num(n) : n \in ClassifierRois}]

ClassifierInit ==
    /\ tierConfigs = TierConfigs
    /\ classification = <<>>
    /\ requested = TierConfigs

\* no call on the analyzer is at hand.
AnalyzerInit ==
    /\ ClassifierInit
    /\ products = <<>>
    /\ optionsList = <<>>
    /\ deals = <<>>
    /\ dealFilter = <<>>
    /\ outcome = <<>>

(* --------------------------- TaskQueue state --------------------------- *)
\* The TaskQueue object together with the Task objects it refers to.
TQ == [tasks |-> tasks, queue |-> queue, runningTasks |-> runningTasks,
       completedTasks |-> completedTasks, taskDurations |-> taskDurations]

SetTQ(q) ==
    /\ tasks' = q.tasks
    /\ queue' = q.queue
    /\ runningTasks' = q.runningTasks
    /\ completedTasks' = q.completedTasks
    /\ taskDurations' = q.taskDurations

\* uuidv4(): an id no other task has.
uuidv4(q) == Cardinality(DOMAIN q.tasks) + 1

\* Array.prototype.sort((a, b) => b.priority - a.priority): a stable sort
\* (ECMAScript 2019, Node.js 20), by descending priority.  insertSorted puts
\* x behind every element that does not compare after it.
\* a sort that is not stable: x goes in front of the elements it ties with.
insertSortedBeforeTies(ts, sorted, x) ==
    LET k == Cardinality({i \in 1..Len(sorted) :
                            ts[sorted[i]].priority > ts[x].priority})
    IN SubSeq(sorted, 1, k) \o <<x>> \o SubSeq(sorted, k + 1, Len(sorted))

insertSorted(ts, sorted, x) ==
    LET k == Cardinality({i \in 1..Len(sorted) :
                            ts[sorted[i]].priority >= ts[x].priority})
    IN SubSeq(sorted, 1, k) \o <<x>> \o SubSeq(sorted, k + 1, Len(sorted))

RECURSIVE sortByPriority(_, _)
sortByPriority(ts, s) ==
    IF s = <<>> THEN <<>>
    ELSE insertSorted(ts, sortByPriority(ts, SubSeq(s, 1, Len(s) - 1)), s[Len(s)])

addTask(q, task) ==
    LET id == uuidv4(q)
        newTask == [type |-> task.type, target |-> task.target,
                    marketplace |-> task.marketplace,
                    priority |-> task.priority, maxRetries |-> task.maxRetries,
                    status |-> "pending", retryCount |-> 0,
                    startedAt |-> Undefined, completedAt |-> Undefined,
                    error |-> Undefined]
        ts == (id :> newTask) @@ q.tasks
    IN [q EXCEPT !.tasks = ts,
                 !.queue = sortByPriority(ts, Append(q.queue, id))]

\* getNextTask reading the head with queue[0] instead of queue.shift().
getNextTaskNoShift(q) ==
    IF Len(q.queue) = 0 THEN [q |-> q, task |-> Null]
    ELSE LET id == Head(q.queue)
         IN [q |-> [q EXCEPT !.tasks[id].status = "running",
                             !.tasks[id].startedAt = Stamped,
                             !.runningTasks = @ \cup {id}],
             task |-> id]

getNextTask(q) ==
    IF Len(q.queue) = 0 THEN [q |-> q, task |-> Null]
    ELSE LET id == Head(q.queue)
         IN [q |-> [q EXCEPT !.queue = Tail(q.queue),
                             !.tasks[id].status = "running",
                             !.tasks[id].startedAt = Stamped,
                             !.runningTasks = @ \cup {id}],
             task |-> id]

\* for (i = 0; i < count && queue.length > 0; i++) tasks.push(getNextTask())
RECURSIVE getNextTasksLoop(_, _, _, _)
getNextTasksLoop(q, count, i, acc) ==
    IF i < count /\ Len(q.queue) > 0
    THEN LET r == getNextTask(q)
         IN getNextTasksLoop(r.q, count, i + 1,
                             IF r.task # Null THEN Append(acc, r.task) ELSE acc)
    ELSE [q |-> q, tasks |-> acc]

\* the loop written with i <= count.
getNextTasksInclusive(q, count) == getNextTasksLoop(q, count + 1, 0, <<>>)

getNextTasks(q, count) == getNextTasksLoop(q, count, 0, <<>>)

\* taskDurations.push(duration); if (taskDurations.length > 100) shift()
pushDuration(durations, duration) ==
    LET pushed == Append(durations, duration)
    IN IF Len(pushed) > MaxTaskDurations THEN Tail(pushed) ELSE pushed

\* completeTask looking the task up with getTask (running or queued).
completeTaskAnyTask(q, taskId, result, duration) ==
    IF taskId \notin q.runningTasks \cup {q.queue[i] : i \in 1..Len(q.queue)} THEN q
    ELSE [q EXCEPT !.tasks[taskId].status = "completed",
                   !.tasks[taskId].completedAt = Stamped,
                   !.taskDurations = pushDuration(@, duration),
                   !.runningTasks = @ \ {taskId},
                   !.completedTasks = (taskId :> [success |-> result.success,
                                                  error |-> Undefined]) @@ @]

\* completeTask that never drops the oldest duration.
completeTaskKeepsAll(q, taskId, result, duration) ==
    IF taskId \notin q.runningTasks THEN q
    ELSE [q EXCEPT !.tasks[taskId].status = "completed",
                   !.tasks[taskId].completedAt = Stamped,
                   !.taskDurations = Append(@, duration),
                   !.runningTasks = @ \ {taskId},
                   !.completedTasks = (taskId :> [success |-> result.success,
                                                  error |-> Undefined]) @@ @]

\* `duration` is what the clock measured, completedAt - (startedAt ||
\* createdAt); the duration field of the retained result is left out.

completeTask(q, taskId, result, duration) ==
    IF taskId \notin q.runningTasks THEN q
    ELSE [q EXCEPT !.tasks[taskId].status = "completed",
                   !.tasks[taskId].completedAt = Stamped,
                   !.taskDurations = pushDuration(@, duration),
                   !.runningTasks = @ \ {taskId},
                   !.completedTasks = (taskId :> [success |-> result.success,
                                                  error |-> Undefined]) @@ @]

\* failTask comparing with <= (one attempt more than maxRetries).
failTaskOffByOne(q, taskId, error) ==
    IF taskId \notin q.runningTasks THEN q
    ELSE LET retryCount == q.tasks[taskId].retryCount + 1
             ts == [q.tasks EXCEPT ![taskId].retryCount = retryCount]
         IN IF retryCount <= ts[taskId].maxRetries
            THEN LET requeued == [ts EXCEPT ![taskId].status = "pending",
                                            ![taskId].startedAt = Undefined,
                                            ![taskId].error = error]
                 IN [q EXCEPT !.tasks = requeued,
                              !.runningTasks = @ \ {taskId},
                              !.queue = sortByPriority(requeued, Append(q.queue, taskId))]
            ELSE [q EXCEPT !.tasks = [ts EXCEPT ![taskId].status = "failed",
                                                ![taskId].completedAt = Stamped,
                                                ![taskId].error = error],
                           !.runningTasks = @ \ {taskId},
                           !.completedTasks = (taskId :> [success |-> FALSE,
                                                          error |-> error]) @@ @]

\* failTask resetting the task to pending without the queue.push(task).
failTaskForgetsPush(q, taskId, error) ==
    IF taskId \notin q.runningTasks THEN q
    ELSE LET retryCount == q.tasks[taskId].retryCount + 1
             ts == [q.tasks EXCEPT ![taskId].retryCount = retryCount]
         IN IF retryCount < ts[taskId].maxRetries
            THEN LET requeued == [ts EXCEPT ![taskId].status = "pending",
                                            ![taskId].startedAt = Undefined,
                                            ![taskId].error = error]
                 IN [q EXCEPT !.tasks = requeued,
                              !.runningTasks = @ \ {taskId},
                              !.queue = sortByPriority(requeued, q.queue)]
            ELSE [q EXCEPT !.tasks = [ts EXCEPT ![taskId].status = "failed",
                                                ![taskId].completedAt = Stamped,
                                                ![taskId].error = error],
                           !.runningTasks = @ \ {taskId},
                           !.completedTasks = (taskId :> [success |-> FALSE,
                                                          error |-> error]) @@ @]

\* failTask requeueing without resetting startedAt.
failTaskKeepsStartedAt(q, taskId, error) ==
    IF taskId \notin q.runningTasks THEN q
    ELSE LET retryCount == q.tasks[taskId].retryCount + 1
             ts == [q.tasks EXCEPT ![taskId].retryCount = retryCount]
         IN IF retryCount < ts[taskId].maxRetries
            THEN LET requeued == [ts EXCEPT ![taskId].status = "pending",
                                            ![taskId].error = error]
                 IN [q EXCEPT !.tasks = requeued,
                              !.runningTasks = @ \ {taskId},
                              !.queue = sortByPriority(requeued, Append(q.queue, taskId))]
            ELSE [q EXCEPT !.tasks = [ts EXCEPT ![taskId].status = "failed",
                                                ![taskId].completedAt = Stamped,
                                                ![taskId].error = error],
                           !.runningTasks = @ \ {taskId},
                           !.completedTasks = (taskId :> [success |-> FALSE,
                                                          error |-> error]) @@ @]

\* failTask retaining the error of the task's first failure in the result.
failTaskKeepsFirstError(q, taskId, error) ==
    IF taskId \notin q.runningTasks THEN q
    ELSE LET retryCount == q.tasks[taskId].retryCount + 1
             ts == [q.tasks EXCEPT ![taskId].retryCount = retryCount]
             first == IF q.tasks[taskId].error = Undefined THEN error
                      ELSE q.tasks[taskId].error
         IN IF retryCount < ts[taskId].maxRetries
            THEN LET requeued == [ts EXCEPT ![taskId].status = "pending",
                                            ![taskId].startedAt = Undefined,
                                            ![taskId].error = error]
                 IN [q EXCEPT !.tasks = requeued,
                              !.runningTasks = @ \ {taskId},
                              !.queue = sortByPriority(requeued, Append(q.queue, taskId))]
            ELSE [q EXCEPT !.tasks = [ts EXCEPT ![taskId].status = "failed",
                                                ![taskId].completedAt = Stamped,
                                                ![taskId].error = error],
                           !.runningTasks = @ \ {taskId},
                           !.completedTasks = (taskId :> [success |-> FALSE,
                                                          error |-> first]) @@ @]

failTask(q, taskId, error) ==
    IF taskId \notin q.runningTasks THEN q
    ELSE LET retryCount == q.tasks[taskId].retryCount + 1
             ts == [q.tasks EXCEPT ![taskId].retryCount = retryCount]
         IN IF retryCount < ts[taskId].maxRetries
            THEN LET requeued == [ts EXCEPT ![taskId].status = "pending",
                                            ![taskId].startedAt = Undefined,
                                            ![taskId].error = error]
                 IN [q EXCEPT !.tasks = requeued,
                              !.runningTasks = @ \ {taskId},
                              !.queue = sortByPriority(requeued, Append(q.queue, taskId))]
            ELSE [q EXCEPT !.tasks = [ts EXCEPT ![taskId].status = "failed",
                                                ![taskId].completedAt = Stamped,
                                                ![taskId].error = error],
                           !.runningTasks = @ \ {taskId},
                           !.completedTasks = (taskId :> [success |-> FALSE,
                                                          error |-> error]) @@ @]

\* completedTasks.get(taskId) || null: a one-element sequence holding the
\* result, the empty sequence for null.
getTaskResult(q, taskId) ==
    IF taskId \in DOMAIN q.completedTasks THEN <<q.completedTasks[taskId]>>
    ELSE <<>>

clearCompleted(q) == [q EXCEPT !.completedTasks = <<>>]

clearAll(q) == [q EXCEPT !.queue = <<>>, !.runningTasks = {},
                         !.completedTasks = <<>>, !.taskDurations = <<>>]

\* reduce((a, b) => a + b, 0)
RECURSIVE sumDurations(_)
sumDurations(durations) ==
    IF durations = <<>> THEN 0 ELSE Head(durations) + sumDurations(Tail(durations))

getAverageTaskDuration(q) ==
    IF Len(q.taskDurations) = 0 THEN Num(0)
    ELSE Ratio(sumDurations(q.taskDurations), Len(q.taskDurations))

(* ------------------------------ history -------------------------------- *)
SeqToSet(s) == {s[i] : i \in 1..Len(s)}

BumpAll(f, ids) == [t \in TaskIds |-> IF t \in ids THEN f[t] + 1 ELSE f[t]]

\* History after a step that leaves the queue as q2: `got` are the ids a
\* dequeue returned, `failed` the ids failTask found running, `inserted` the
\* ids put into the pending list, in the order of their insertion.
Track(q2, got, failed, inserted, log) ==
    /\ durationLog' = log
    /\ handedOut' = BumpAll(handedOut, got)
    /\ failures' = BumpAll(failures, failed)
    /\ requeues' = BumpAll(requeues, failed \cap SeqToSet(q2.queue))
    /\ insertionOrder' =
          SelectSeq(insertionOrder,
                    LAMBDA t : t \in SeqToSet(q2.queue) /\ t \notin SeqToSet(inserted))
          \o inserted

NoProc == [pc |-> "none", scrapes |-> 0, completes |-> 0, fails |-> 0]

\* Everything but the recorded durations.
SchedulerStart ==
    /\ tasks = <<>>
    /\ queue = <<>>
    /\ runningTasks = {}
    /\ completedTasks = <<>>
    /\ config \in [batchSize : 1..MaxBatch, maxConcurrentScrapes : 1..MaxBatch]
    /\ isRunning = FALSE
    /\ stats = [totalTasks |-> 0]
    /\ cyclePc = [c \in Cycles |-> "idle"]
    /\ cycleTasks = [c \in Cycles |-> <<>>]
    /\ proc = [c \in Cycles |-> [t \in TaskIds |-> NoProc]]
    /\ handedOut = [t \in TaskIds |-> 0]
    /\ failures = [t \in TaskIds |-> 0]
    /\ requeues = [t \in TaskIds |-> 0]
    /\ insertionOrder = <<>>
    /\ history = <<>>
    /\ lastPrices = <<>>
    /\ now = 0
    /\ alert = <<>>
    /\ added = [k \in PriceKeys |-> <<>>]

SchedulerInit == SchedulerStart /\ taskDurations = <<>> /\ durationLog = <<>>

Init == SchedulerInit /\ AnalyzerInit

(* ------------------- calls on the TaskQueue's interface ---------------- *)
AddTask(priority, maxRetries) ==
    /\ Cardinality(DOMAIN tasks) < MaxTasks
    /\ LET id == uuidv4(TQ)
           q2 == addTask(TQ, [type |-> "product", target |-> "B01",
                              marketplace |-> "DE", priority |-> priority,
                              maxRetries |-> maxRetries])
       IN /\ SetTQ(q2)
          /\ Track(q2, {}, {}, <<id>>, durationLog)
    /\ UNCHANGED <<schedVars, priceVars, analyzerVars>>

GetNextTask ==
    LET r == getNextTask(TQ)
    IN /\ SetTQ(r.q)
       /\ Track(r.q, IF r.task = Null THEN {} ELSE {r.task}, {}, <<>>, durationLog)
       /\ UNCHANGED <<schedVars, priceVars, analyzerVars>>

GetNextTasks(count) ==
    LET r == getNextTasks(TQ, count)
    IN /\ SetTQ(r.q)
       /\ Track(r.q, SeqToSet(r.tasks), {}, <<>>, durationLog)
       /\ UNCHANGED <<schedVars, priceVars, analyzerVars>>

CompleteTask(taskId, duration) ==
    LET q2 == completeTask(TQ, taskId, [success |-> TRUE], duration)
    IN /\ SetTQ(q2)
       /\ Track(q2, {}, {}, <<>>,
                IF taskId \in runningTasks THEN Append(durationLog, duration)
                ELSE durationLog)
       /\ UNCHANGED <<schedVars, priceVars, analyzerVars>>

FailTask(taskId, error) ==
    LET q2 == failTask(TQ, taskId, error)
        found == {taskId} \cap runningTasks
    IN /\ SetTQ(q2)
       /\ Track(q2, {}, found, IF found \cap SeqToSet(q2.queue) # {}
                               THEN <<taskId>> ELSE <<>>, durationLog)
       /\ UNCHANGED <<schedVars, priceVars, analyzerVars>>

ClearCompleted ==
    LET q2 == clearCompleted(TQ)
    IN /\ SetTQ(q2)
       /\ Track(q2, {}, {}, <<>>, durationLog)
       /\ UNCHANGED <<schedVars, priceVars, analyzerVars>>

ClearAll ==
    LET q2 == clearAll(TQ)
    IN /\ SetTQ(q2)
       /\ Track(q2, {}, {}, <<>>, <<>>)
       /\ UNCHANGED <<schedVars, priceVars, analyzerVars>>

QueueNext ==
    \/ \E p \in Priorities, m \in RetryLimits : AddTask(p, m)
    \/ GetNextTask
    \/ \E count \in 0..MaxCount : GetNextTasks(count)
    \/ \E t \in TaskIds : CompleteTask(t, 0)   \* the clock stands still
    \/ \E t \in TaskIds, e \in Errors : FailTask(t, e)
    \/ ClearCompleted
    \/ ClearAll

\* A TaskQueue on its own (the scheduler around it stays idle), under any
\* sequence of calls on its public methods.
QueueInit == Init /\ config = [batchSize |-> 1, maxConcurrentScrapes |-> 1]

QueueSpec == QueueInit /\ [][QueueNext]_vars

\* A TaskQueue that starts either new or after 98 to 100 completions (of 30
\* and 10 milliseconds in turn) whose task objects and results are gone, under
\* calls that complete tasks after the sampled durations, fail them, or
\* clear the queue.
DurationSamples == {10, 50}

WarmDurations(k) == [i \in 1..k |-> IF i % 2 = 1 THEN 30 ELSE 10]

DurationInit ==
    /\ SchedulerStart
    /\ config = [batchSize |-> 1, maxConcurrentScrapes |-> 1]
    /\ AnalyzerInit
    /\ taskDurations \in {<<>>} \cup {WarmDurations(k) :
                                         k \in MaxTaskDurations - 2 .. MaxTaskDurations}
    /\ durationLog = taskDurations

DurationNext ==
    \/ \E m \in 1..2 : AddTask(1, m)
    \/ GetNextTask
    \/ \E t \in TaskIds, d \in DurationSamples : CompleteTask(t, d)
    \/ \E t \in TaskIds : FailTask(t, "timeout")
    \/ ClearCompleted
    \/ ClearAll

DurationSpec == DurationInit /\ [][DurationNext]_vars

(* ---------------- calls on the DealClassifier's interface -------------- *)
Classify(metrics) ==
    /\ classification' = [metrics |-> metrics,
                          result |-> classify(tierConfigs, metrics)]
    /\ UNCHANGED <<tierConfigs, requested, argVars, outcome,
                   queueVars, schedVars, histVars, priceVars>>

UpdateTierConfig(tier, cfg) ==
    /\ tierConfigs' = updateTierConfig(tierConfigs, tier, cfg)
    /\ requested' = [requested EXCEPT ![tier] = cfg]
    /\ UNCHANGED <<classification, argVars, outcome,
                   queueVars, schedVars, histVars, priceVars>>

UpdateTierConfigs(newConfigs) ==
    /\ tierConfigs' = updateTierConfigs(tierConfigs, newConfigs)
    /\ requested' = newConfigs
    /\ UNCHANGED <<classification, argVars, outcome,
                   queueVars, schedVars, histVars, priceVars>>

\* A DealClassifier constructed with the bands of the tests, under any
\* sequence of classify and update calls.
ClassifierNext ==
    \/ \E m \in MetricsSamples : Classify(m)
    \/ \E tier \in Tiers, cfg \in ConfigSamples : UpdateTierConfig(tier, cfg)
    \/ \E newConfigs \in [Tiers -> ConfigSamples] : UpdateTierConfigs(newConfigs)

ClassifierSpec == QueueInit /\ [][ClassifierNext]_vars

(* ------------------------------ FeeCalculator -------------------------- *)
\* Money is a Decimal, here a whole number of units of 0.00001 EUR; a weight
\* is a whole number of tenths of a kilogram, a length a whole number of
\* centimetres.  A rate (the number 0.15) is a whole number of percent.  An
\* optional argument is <<>> when it is left out and <<v>> otherwise.
Cent == 1000                \* units in 0.01 EUR
Eur(euros, cents) == (euros * 100 + cents) * Cent

\* REFERRAL_FEES, in percent.
REFERRAL_FEES ==
    [c \in {"default", "Home & Garden", "Toys & Games", "Sports & Outdoors",
            "Books", "Music", "DVD & Blu-ray", "Software", "Video Games",
            "Kitchen", "Pet Supplies", "Baby", "Health & Personal Care",
            "Beauty", "Tools & Home Improvement", "Grocery"} |-> 15]
    @@ [c \in {"Consumer Electronics", "Camera & Photo"} |-> 8]
    @@ [c \in {"Computers"} |-> 7]
    @@ [c \in {"Clothing", "Shoes & Jewelry"} |-> 17]
    @@ [c \in {"Watches"} |-> 16]
    @@ [c \in {"Automotive"} |-> 12]

\* VAT_RATES, in percent.
VAT_RATES == [DE |-> 19, FR |-> 20, IT |-> 22, ES |-> 21]

CLOSING_FEES == [m \in {"DE", "FR", "IT", "ES"} |-> Eur(0, 99)]

FBA_FEES ==
    [m \in {"DE", "FR", "IT", "ES"} |->
        [smallStandard |-> Eur(2, 50), standard |-> Eur(3, 22),
         largeStandard |-> Eur(4, 75), specialOversize |-> Eur(8, 50)]]

FBA_WEIGHT_FEE == Eur(0, 42)      \* per kg

Max3(a, b, c) ==
    IF a >= b /\ a >= c THEN a ELSE IF b >= c THEN b ELSE c

Min3(a, b, c) ==
    IF a <= b /\ a <= c THEN a ELSE IF b <= c THEN b ELSE c

calculateFBAFee(marketplace, weight, dimensions) ==
    LET fbaFees == FBA_FEES[marketplace]
        d == dimensions[1]
        volume == d.length * d.width * d.height
        longestSide == Max3(d.length, d.width, d.height)
        shortestSide == Min3(d.length, d.width, d.height)
        medianSide == d.length + d.width + d.height - longestSide - shortestSide
        baseFee ==
            IF dimensions = <<>> THEN fbaFees.standard
            ELSE IF /\ volume <= 1600 /\ longestSide <= 45 /\ medianSide <= 35
                    /\ shortestSide <= 20
                    /\ (weight = <<>> \/ weight[1] <= 10)
                 THEN fbaFees.smallStandard
            ELSE IF longestSide <= 61 /\ medianSide <= 46 /\ shortestSide <= 46
                 THEN fbaFees.standard
            ELSE IF longestSide <= 120 /\ medianSide <= 60 /\ shortestSide <= 60
                 THEN fbaFees.largeStandard
            ELSE fbaFees.specialOversize
        weightFee ==
            IF weight # <<>> /\ weight[1] > 10
            THEN ((weight[1] - 10) * FBA_WEIGHT_FEE) \div 10
            ELSE 0
    IN baseFee + weightFee

\* calculateStorageFee charging storage whatever the fulfillment type.
calculateStorageFeeForAll(fulfillmentType, dimensions) ==
    IF dimensions # <<>>
    THEN LET d == dimensions[1]
         IN (d.length * d.width * d.height * 26) \div 1000
    ELSE Eur(0, 10)

\* volume / 1000000 * 0.26 EUR: 26 units for every 1000 cubic centimetres.
calculateStorageFee(fulfillmentType, dimensions) ==
    IF fulfillmentType # "FBA" THEN 0
    ELSE IF dimensions # <<>>
    THEN LET d == dimensions[1]
         IN (d.length * d.width * d.height * 26) \div 1000
    ELSE Eur(0, 10)

calculateShippingCost(weight, dimensions) ==
    LET baseShipping == Eur(3, 50)
    IN IF weight # <<>> /\ weight[1] > 5
       THEN baseShipping + ((weight[1] - 5) * Eur(1, 50)) \div 10
       ELSE baseShipping

\* calculateFees leaving the closing fee out of the total.
calculateFeesWithoutClosingFee(params) ==
    LET referralFeeRate == IF params.category \in DOMAIN REFERRAL_FEES
                           THEN REFERRAL_FEES[params.category]
                           ELSE REFERRAL_FEES["default"]
        referralFee == (params.salePrice * referralFeeRate) \div 100
        fulfillmentFee ==
            IF params.fulfillmentType = "FBA"
            THEN calculateFBAFee(params.marketplace, params.productWeight,
                                 params.productDimensions)
            ELSE 0
        storageFee == calculateStorageFee(params.fulfillmentType,
                                          params.productDimensions)
        vat == (params.salePrice * VAT_RATES[params.marketplace]) \div 100
        shippingCost ==
            IF params.fulfillmentType = "FBM"
            THEN calculateShippingCost(params.productWeight, params.productDimensions)
            ELSE 0
    IN [referralFee |-> referralFee, fulfillmentFee |-> fulfillmentFee,
        storageFee |-> storageFee, vat |-> vat, shippingCost |-> shippingCost,
        total |-> referralFee + fulfillmentFee + storageFee + vat + shippingCost]

\* calculateFees charging every product the closing fee.
calculateFeesClosingFeeForAll(params) ==
    LET referralFeeRate == IF params.category \in DOMAIN REFERRAL_FEES
                           THEN REFERRAL_FEES[params.category]
                           ELSE REFERRAL_FEES["default"]
        referralFee == (params.salePrice * referralFeeRate) \div 100
        closingFee == CLOSING_FEES[params.marketplace]
        fulfillmentFee ==
            IF params.fulfillmentType = "FBA"
            THEN calculateFBAFee(params.marketplace, params.productWeight,
                                 params.productDimensions)
            ELSE 0
        storageFee == calculateStorageFee(params.fulfillmentType,
                                          params.productDimensions)
        vat == (params.salePrice * VAT_RATES[params.marketplace]) \div 100
        shippingCost ==
            IF params.fulfillmentType = "FBM"
            THEN calculateShippingCost(params.productWeight, params.productDimensions)
            ELSE 0
    IN [referralFee |-> referralFee, fulfillmentFee |-> fulfillmentFee,
        storageFee |-> storageFee, vat |-> vat, shippingCost |-> shippingCost,
        total |-> referralFee + closingFee + fulfillmentFee + storageFee + vat
                    + shippingCost]

\* No rate of REFERRAL_FEES is 0, so `|| default` is taken exactly by the
\* categories the table does not hold.  isMedia is truthy when it is there
\* and true.
calculateFees(params) ==
    LET referralFeeRate == IF params.category \in DOMAIN REFERRAL_FEES
                           THEN REFERRAL_FEES[params.category]
                           ELSE REFERRAL_FEES["default"]
        referralFee == (params.salePrice * referralFeeRate) \div 100
        closingFee == IF params.isMedia = <<TRUE>>
                      THEN CLOSING_FEES[params.marketplace] ELSE 0
        fulfillmentFee ==
            IF params.fulfillmentType = "FBA"
            THEN calculateFBAFee(params.marketplace, params.productWeight,
                                 params.productDimensions)
            ELSE 0
        storageFee == calculateStorageFee(params.fulfillmentType,
                                          params.productDimensions)
        vat == (params.salePrice * VAT_RATES[params.marketplace]) \div 100
        shippingCost ==
            IF params.fulfillmentType = "FBM"
            THEN calculateShippingCost(params.productWeight, params.productDimensions)
            ELSE 0
    IN [referralFee |-> referralFee, fulfillmentFee |-> fulfillmentFee,
        storageFee |-> storageFee, vat |-> vat, shippingCost |-> shippingCost,
        total |-> referralFee + closingFee + fulfillmentFee + storageFee + vat
                    + shippingCost]

(* ------------------------------ DealAnalyzer --------------------------- *)
\* calculateMetrics taking the margin as a share of the cost price.
calculateMetricsMarginOfCost(salePrice, costPrice, totalFees) ==
    LET profit == salePrice - costPrice - totalFees
    IN [salePrice |-> salePrice, costPrice |-> costPrice, totalFees |-> totalFees,
        profit |-> profit,
        margin |-> IF costPrice > 0 THEN Ratio(profit * 100, costPrice) ELSE Num(0),
        roi |-> IF costPrice > 0 THEN Ratio(profit * 100, costPrice) ELSE Num(0)]

calculateMetrics(salePrice, costPrice, totalFees) ==
    LET profit == salePrice - costPrice - totalFees
    IN [salePrice |-> salePrice, costPrice |-> costPrice, totalFees |-> totalFees,
        profit |-> profit,
        margin |-> IF salePrice > 0 THEN Ratio(profit * 100, salePrice) ELSE Num(0),
        roi |-> IF costPrice > 0 THEN Ratio(profit * 100, costPrice) ELSE Num(0)]

\* The deal's id (a fresh uuid) and detectedAt (the clock) are left out.
\* category defaults to 'default' and isMedia to false when the options do not
\* hold them.
analyze(configs, product, options) ==
    LET feeParams ==
            [salePrice |-> product.price,
             category |-> IF options.category = <<>> THEN "default"
                          ELSE options.category[1],
             fulfillmentType |-> options.fulfillmentType,
             marketplace |-> product.marketplace,
             productWeight |-> options.productWeight,
             productDimensions |-> options.productDimensions,
             isMedia |-> IF options.isMedia = <<>> THEN <<FALSE>>
                         ELSE options.isMedia]
        feeBreakdown == calculateFees(feeParams)
        metrics == calculateMetrics(product.price, options.costPrice,
                                    feeBreakdown.total)
    IN [product |-> product, metrics |-> metrics, feeBreakdown |-> feeBreakdown,
        tier |-> classify(configs, metrics).tier,
        fulfillmentType |-> options.fulfillmentType]

RECURSIVE mapAnalyze(_, _, _, _)
mapAnalyze(configs, prods, opts, index) ==
    IF index > Len(prods) THEN <<>>
    ELSE <<analyze(configs, prods[index], opts[index])>>
            \o mapAnalyze(configs, prods, opts, index + 1)

\* analyzeBatch analysing as many products as there are options for.
analyzeBatchTruncates(configs, prods, opts) ==
    LET n == Min(Len(prods), Len(opts))
    IN [threw |-> FALSE,
        deals |-> mapAnalyze(configs, SubSeq(prods, 1, n), opts, 1),
        analyzed |-> n]

\* analyzed counts the analyze calls made before the call returned or threw.
analyzeBatch(configs, prods, opts) ==
    IF Len(prods) # Len(opts)
    THEN [threw |-> TRUE, deals |-> <<>>, analyzed |-> 0]
    ELSE [threw |-> FALSE, deals |-> mapAnalyze(configs, prods, opts, 1),
          analyzed |-> Len(prods)]

(* ---------------- calls on the DealAnalyzer's interface ---------------- *)
\* The arguments of the calls.  Prices and costs: none, negative, with cents,
\* and the 100 EUR product of the tests with the costs of the tests.
PriceSamples == {Eur(0, 0) - Eur(1, 0), Eur(0, 0), Eur(19, 99), Eur(100, 0)}
CostSamples ==
    {Eur(0, 0) - Eur(1, 0), Eur(0, 0), Eur(40, 0), Eur(50, 0), Eur(55, 0), Eur(70, 0)}
CategorySamples == {<<>>, <<"Computers">>, <<"Gadgets">>}
WeightSamples == {<<>>, <<4>>, <<8>>, <<20>>}
DimensionSamples ==
    {<<>>,
     <<[length |-> 10, width |-> 5, height |-> 10]>>,
     <<[length |-> 10, width |-> 50, height |-> 20]>>,
     <<[length |-> 50, width |-> 20, height |-> 100]>>,
     <<[length |-> 150, width |-> 100, height |-> 100]>>}

ProductSamples == [price : PriceSamples, marketplace : Marketplaces]

OptionsSamples ==
    [costPrice : CostSamples, fulfillmentType : {"FBA", "FBM"},
     category : CategorySamples, productWeight : WeightSamples,
     productDimensions : DimensionSamples, isMedia : {<<>>, <<TRUE>>, <<FALSE>>}]

\* The lists handed to analyzeBatch: up to MaxBatchLen of two products, and
\* up to MaxBatchLen of two sets of options.
BatchProducts ==
    {[price |-> Eur(100, 0), marketplace |-> "DE"],
     [price |-> Eur(19, 99), marketplace |-> "FR"]}

BatchOptions ==
    {[costPrice |-> Eur(40, 0), fulfillmentType |-> "FBA", category |-> <<>>,
      productWeight |-> <<>>, productDimensions |-> <<>>, isMedia |-> <<>>],
     [costPrice |-> Eur(70, 0), fulfillmentType |-> "FBM",
      category |-> <<"Computers">>, productWeight |-> <<8>>,
      productDimensions |-> <<>>, isMedia |-> <<TRUE>>]}

SeqsUpTo(S, n) == UNION {[1..k -> S] : k \in 0..n}

\* A caller about to call calculateFees or analyze with one product and one
\* set of options, or analyzeBatch with two lists.
CallInit ==
    /\ SchedulerInit
    /\ config = [batchSize |-> 1, maxConcurrentScrapes |-> 1]
    /\ ClassifierInit
    /\ \/ /\ products \in [1..1 -> ProductSamples]
          /\ optionsList \in [1..1 -> OptionsSamples]
       \/ /\ products \in SeqsUpTo(BatchProducts, MaxBatchLen)
          /\ optionsList \in SeqsUpTo(BatchOptions, MaxBatchLen)
    /\ deals = <<>>
    /\ dealFilter = <<>>
    /\ outcome = <<>>

\* calculateFees called directly: category is a required argument, isMedia
\* may be left out.
CalculateFees ==
    /\ Len(products) = 1 /\ Len(optionsList) = 1
    /\ LET product == products[1]
           options == optionsList[1]
           params == [salePrice |-> product.price,
                      category |-> IF options.category = <<>> THEN "default"
                                   ELSE options.category[1],
                      fulfillmentType |-> options.fulfillmentType,
                      marketplace |-> product.marketplace,
                      productWeight |-> options.productWeight,
                      productDimensions |-> options.productDimensions,
                      isMedia |-> options.isMedia]
       IN outcome' = [op |-> "calculateFees", params |-> params,
                      value |-> calculateFees(params)]
    /\ UNCHANGED <<classifierVars, argVars,
                   queueVars, schedVars, histVars, priceVars>>

Analyze ==
    /\ Len(products) = 1 /\ Len(optionsList) = 1
    /\ outcome' = [op |-> "analyze",
                   value |-> analyze(tierConfigs, products[1], optionsList[1])]
    /\ UNCHANGED <<classifierVars, argVars,
                   queueVars, schedVars, histVars, priceVars>>

AnalyzeBatch ==
    /\ outcome' = [op |-> "analyzeBatch",
                   value |-> analyzeBatch(tierConfigs, products, optionsList)]
    /\ UNCHANGED <<classifierVars, argVars,
                   queueVars, schedVars, histVars, priceVars>>

AnalyzerNext == CalculateFees \/ Analyze \/ AnalyzeBatch

AnalyzerSpec == CallInit /\ [][AnalyzerNext]_vars

(* ---------------------------- DealFilterManager ------------------------ *)
\* A deal as far as the filter reads it.  margin and roi are numbers of
\* percent, profit and price amounts of money, rating a whole number of
\* tenths of a star, salesRank a whole number.  filter.marketplaces is an
\* array.
passesFilterRankZeroBlocks(deal, criteria) ==
    LET metrics == deal.metrics
        product == deal.product
    IN IF RatioLt(metrics.margin, Num(criteria.minMargin)) THEN FALSE
       ELSE IF RatioLt(metrics.roi, Num(criteria.minRoi)) THEN FALSE
       ELSE IF metrics.profit < criteria.minProfit THEN FALSE
       ELSE IF product.price > criteria.maxPrice THEN FALSE
       ELSE IF product.rating < criteria.minRating THEN FALSE
       ELSE IF product.salesRank > criteria.maxSalesRank THEN FALSE
       ELSE IF product.marketplace \notin SeqToSet(criteria.marketplaces) THEN FALSE
       ELSE TRUE

\* passesFilter turning away the deals whose profit is above minProfit.
passesFilterProfitAbove(deal, criteria) ==
    LET metrics == deal.metrics
        product == deal.product
    IN IF RatioLt(metrics.margin, Num(criteria.minMargin)) THEN FALSE
       ELSE IF RatioLt(metrics.roi, Num(criteria.minRoi)) THEN FALSE
       ELSE IF metrics.profit > criteria.minProfit THEN FALSE
       ELSE IF product.price > criteria.maxPrice THEN FALSE
       ELSE IF product.rating < criteria.minRating THEN FALSE
       ELSE IF criteria.maxSalesRank > 0 /\ product.salesRank > criteria.maxSalesRank
            THEN FALSE
       ELSE IF product.marketplace \notin SeqToSet(criteria.marketplaces) THEN FALSE
       ELSE TRUE

passesFilter(deal, criteria) ==
    LET metrics == deal.metrics
        product == deal.product
    IN IF RatioLt(metrics.margin, Num(criteria.minMargin)) THEN FALSE
       ELSE IF RatioLt(metrics.roi, Num(criteria.minRoi)) THEN FALSE
       ELSE IF metrics.profit < criteria.minProfit THEN FALSE
       ELSE IF product.price > criteria.maxPrice THEN FALSE
       ELSE IF product.rating < criteria.minRating THEN FALSE
       ELSE IF criteria.maxSalesRank > 0 /\ product.salesRank > criteria.maxSalesRank
            THEN FALSE
       ELSE IF product.marketplace \notin SeqToSet(criteria.marketplaces) THEN FALSE
       ELSE TRUE

\* deals.filter((deal) => this.passesFilter(deal, filter)): a new array.
filter(ds, criteria) == SelectSeq(ds, LAMBDA deal : passesFilter(deal, criteria))

\* The deals of the tests, createMockDeal(margin, roi, price, rating,
\* salesRank, marketplace), with a profit of its own: one deal that passes
\* the sample filters and one deal for every criterion that a filter can
\* turn it away by.
createMockDeal(margin, roi, profit, price, rating, salesRank, marketplace) ==
    [product |-> [price |-> price, rating |-> rating, salesRank |-> salesRank,
                  marketplace |-> marketplace],
     metrics |-> [margin |-> Num(margin), roi |-> Num(roi), profit |-> profit]]

DealSamples ==
    {createMockDeal(30, 200, Eur(30, 0), Eur(100, 0), 45, 400, "DE"),
     createMockDeal(20, 200, Eur(30, 0), Eur(100, 0), 45, 400, "DE"),
     createMockDeal(30, 100, Eur(30, 0), Eur(100, 0), 45, 400, "DE"),
     createMockDeal(30, 200, Eur(10, 0), Eur(100, 0), 45, 400, "DE"),
     createMockDeal(30, 200, Eur(30, 0), Eur(200, 0), 45, 400, "DE"),
     createMockDeal(30, 200, Eur(30, 0), Eur(100, 0), 35, 400, "DE"),
     createMockDeal(30, 200, Eur(30, 0), Eur(100, 0), 45, 800, "DE"),
     createMockDeal(30, 200, Eur(30, 0), Eur(100, 0), 45, 2000, "DE"),
     createMockDeal(30, 200, Eur(30, 0), Eur(100, 0), 45, 400, "FR")}

FilterSamples ==
    [minMargin : {0, 25}, minRoi : {0, 150}, minProfit : {0, Eur(20, 0)},
     maxPrice : {Eur(150, 0), Eur(1000, 0)}, minRating : {0, 40},
     maxSalesRank : {0, 500, 1000}, marketplaces : {<<"DE">>, <<"DE", "FR">>}]

\* A caller about to call filter with a list of deals and a filter.
FilterInit ==
    /\ SchedulerInit
    /\ config = [batchSize |-> 1, maxConcurrentScrapes |-> 1]
    /\ ClassifierInit
    /\ products = <<>>
    /\ optionsList = <<>>
    /\ deals \in SeqsUpTo(DealSamples, MaxDeals)
    /\ dealFilter \in FilterSamples
    /\ outcome = <<>>

\* filter has no throw statement and calls nothing that throws on a number:
\* every call returns an array.
Filter ==
    /\ outcome' = [op |-> "filter", threw |-> FALSE,
                   value |-> filter(deals, dealFilter)]
    /\ UNCHANGED <<classifierVars, argVars, queueVars, schedVars, histVars, priceVars>>

FilterNext == Filter

FilterSpec == FilterInit /\ [][FilterNext]_vars

\* Filters with one bound below zero, the other bounds as in the tests.
TestFilter ==
    [minMargin |-> 25, minRoi |-> 150, minProfit |-> 0, maxPrice |-> Eur(150, 0),
     minRating |-> 40, maxSalesRank |-> 500, marketplaces |-> <<"DE">>]

InvalidFilterSamples ==
    {[TestFilter EXCEPT !.minMargin = -5],
     [TestFilter EXCEPT !.minRoi = -1],
     [TestFilter EXCEPT !.minProfit = -Eur(1, 0)],
     [TestFilter EXCEPT !.maxPrice = -Eur(1, 0)],
     [TestFilter EXCEPT !.minRating = -1],
     [TestFilter EXCEPT !.maxSalesRank = -1]}

\* A caller (DealTracker.filterDeals takes filter: any) about to call filter
\* with such a filter.
InvalidFilterInit ==
    /\ SchedulerInit
    /\ config = [batchSize |-> 1, maxConcurrentScrapes |-> 1]
    /\ ClassifierInit
    /\ products = <<>>
    /\ optionsList = <<>>
    /\ deals \in SeqsUpTo(DealSamples, MaxDeals)
    /\ dealFilter \in InvalidFilterSamples
    /\ outcome = <<>>

InvalidFilterSpec == InvalidFilterInit /\ [][FilterNext]_vars

\* The comparators of the six sortBy methods: the sign of what the arrow
\* function returns for (a, b).  margin and roi are fractions, so the sign of
\* a difference is taken on the cross products.
compareBy(sortKey, descending, a, b) ==
    LET diff(x, y) ==
            CASE sortKey = "margin" ->
                     x.metrics.margin.num * y.metrics.margin.den
                         - y.metrics.margin.num * x.metrics.margin.den
              [] sortKey = "roi" ->
                     x.metrics.roi.num * y.metrics.roi.den
                         - y.metrics.roi.num * x.metrics.roi.den
              [] sortKey = "profit" -> x.metrics.profit - y.metrics.profit
              [] sortKey = "price" -> x.product.price - y.product.price
              [] sortKey = "salesRank" -> x.product.salesRank - y.product.salesRank
              [] sortKey = "rating" -> x.product.rating - y.product.rating
    IN IF descending THEN diff(b, a) ELSE diff(a, b)

\* Array.prototype.sort placing an entry before the entries it ties with.
placeBeforeTies(sorted, x, sortKey, descending) ==
    LET after == {i \in 1..Len(sorted) :
                     compareBy(sortKey, descending, sorted[i], x) >= 0}
        at == IF after = {} THEN Len(sorted) + 1
              ELSE CHOOSE i \in after : \A j \in after : i <= j
    IN SubSeq(sorted, 1, at - 1) \o <<x>> \o SubSeq(sorted, at, Len(sorted))

\* Array.prototype.sort is stable: an entry goes behind every entry that the
\* comparator does not put after it, so behind the entries it ties with.
place(sorted, x, sortKey, descending) ==
    LET after == {i \in 1..Len(sorted) :
                     compareBy(sortKey, descending, sorted[i], x) > 0}
        at == IF after = {} THEN Len(sorted) + 1
              ELSE CHOOSE i \in after : \A j \in after : i <= j
    IN SubSeq(sorted, 1, at - 1) \o <<x>> \o SubSeq(sorted, at, Len(sorted))

RECURSIVE sortPrefix(_, _, _, _)
sortPrefix(ds, k, sortKey, descending) ==
    IF k = 0 THEN <<>>
    ELSE place(sortPrefix(ds, k - 1, sortKey, descending), ds[k], sortKey, descending)

\* [...deals].sort(comparator): a sorted copy.
sort(ds, sortKey, descending) == sortPrefix(ds, Len(ds), sortKey, descending)

sortByMargin(ds, descending) == sort(ds, "margin", descending)
sortByRoi(ds, descending) == sort(ds, "roi", descending)
sortByProfit(ds, descending) == sort(ds, "profit", descending)
sortByPrice(ds, descending) == sort(ds, "price", descending)
sortBySalesRank(ds, ascending) == sort(ds, "salesRank", ~ascending)
sortByRating(ds, descending) == sort(ds, "rating", descending)

\* sorted.slice(0, count) for a count that is a natural number.
getTopDeals(ds, count, sortBy) ==
    LET sorted == CASE sortBy = "margin" -> sortByMargin(ds, TRUE)
                    [] sortBy = "roi" -> sortByRoi(ds, TRUE)
                    [] sortBy = "profit" -> sortByProfit(ds, TRUE)
                    [] OTHER -> sortByMargin(ds, TRUE)
    IN SubSeq(sorted, 1, Min(count, Len(sorted)))

\* Deals to sort: the test's margins 20, 40, 30 with their ROIs, and deals
\* that tie with one of them on a key and differ elsewhere.
SortSamples ==
    {createMockDeal(20, 100, Eur(30, 0), Eur(100, 0), 45, 1000, "DE"),
     createMockDeal(40, 200, Eur(30, 0), Eur(100, 0), 45, 1000, "DE"),
     createMockDeal(30, 150, Eur(30, 0), Eur(100, 0), 45, 1000, "DE"),
     createMockDeal(30, 80, Eur(60, 0), Eur(200, 0), 40, 500, "FR"),
     createMockDeal(20, 150, Eur(15, 0), Eur(50, 0), 35, 2000, "FR"),
     createMockDeal(40, 80, Eur(60, 0), Eur(50, 0), 40, 500, "IT")}

SortBySamples == {"margin", "roi", "profit"}

\* A caller about to call a sortBy method or getTopDeals with a list.
SortInit ==
    /\ SchedulerInit
    /\ config = [batchSize |-> 1, maxConcurrentScrapes |-> 1]
    /\ ClassifierInit
    /\ products = <<>>
    /\ optionsList = <<>>
    /\ deals \in SeqsUpTo(SortSamples, MaxSortLen)
    /\ dealFilter = <<>>
    /\ outcome = <<>>

SortByMargin(descending) ==
    /\ outcome' = [op |-> "sortByMargin", arg |-> descending,
                   value |-> sortByMargin(deals, descending)]
    /\ UNCHANGED <<classifierVars, argVars, queueVars, schedVars, histVars, priceVars>>

SortByRoi(descending) ==
    /\ outcome' = [op |-> "sortByRoi", arg |-> descending,
                   value |-> sortByRoi(deals, descending)]
    /\ UNCHANGED <<classifierVars, argVars, queueVars, schedVars, histVars, priceVars>>

SortByProfit(descending) ==
    /\ outcome' = [op |-> "sortByProfit", arg |-> descending,
                   value |-> sortByProfit(deals, descending)]
    /\ UNCHANGED <<classifierVars, argVars, queueVars, schedVars, histVars, priceVars>>

SortByPrice(descending) ==
    /\ outcome' = [op |-> "sortByPrice", arg |-> descending,
                   value |-> sortByPrice(deals, descending)]
    /\ UNCHANGED <<classifierVars, argVars, queueVars, schedVars, histVars, priceVars>>

SortBySalesRank(ascending) ==
    /\ outcome' = [op |-> "sortBySalesRank", arg |-> ascending,
                   value |-> sortBySalesRank(deals, ascending)]
    /\ UNCHANGED <<classifierVars, argVars, queueVars, schedVars, histVars, priceVars>>

SortByRating(descending) ==
    /\ outcome' = [op |-> "sortByRating", arg |-> descending,
                   value |-> sortByRating(deals, descending)]
    /\ UNCHANGED <<classifierVars, argVars, queueVars, schedVars, histVars, priceVars>>

GetTopDeals(count, sortBy) ==
    /\ outcome' = [op |-> "getTopDeals", arg |-> <<count, sortBy>>,
                   value |-> getTopDeals(deals, count, sortBy)]
    /\ UNCHANGED <<classifierVars, argVars, queueVars, schedVars, histVars, priceVars>>

SortNext ==
    \/ \E descending \in BOOLEAN : SortByMargin(descending)
    \/ \E descending \in BOOLEAN : SortByRoi(descending)
    \/ \E descending \in BOOLEAN : SortByProfit(descending)
    \/ \E descending \in BOOLEAN : SortByPrice(descending)
    \/ \E ascending \in BOOLEAN : SortBySalesRank(ascending)
    \/ \E descending \in BOOLEAN : SortByRating(descending)
    \/ \E count \in 0..MaxTop, sortBy \in SortBySamples : GetTopDeals(count, sortBy)

SortSpec == SortInit /\ [][SortNext]_vars

(* ----------------------------- DealScheduler --------------------------- *)
SchedulerMaxRetries == 3    \* maxRetries: 3 of every task the scheduler adds

\* new Error(result.error || 'Failed to scrape ...'): the message passed to
\* failTask; the scheduler never looks at it.
ErrorMessage == "timeout"

DiscoveredAsins == <<"B01", "B02", "B03", "B04">>

\* TaskQueue.addTasks: tasks.map((task) => this.addTask(task))
RECURSIVE addTasks(_, _)
addTasks(q, newTasks) ==
    IF newTasks = <<>> THEN q
    ELSE addTasks(addTask(q, Head(newTasks)), Tail(newTasks))

\* updateStats overwrites every field of stats but totalTasks from the queue,
\* and getStats calls it before it returns stats: the overwritten fields are
\* never read in between, so the state keeps totalTasks alone and getStats
\* computes the others at the time of the call.
updateStats(q, st) ==
    LET completed == Cardinality(DOMAIN q.completedTasks)
        running == Cardinality(q.runningTasks)
    IN [totalTasks |-> st.totalTasks,
        pendingTasks |-> Len(q.queue),
        runningTasks |-> running,
        completedTasks |-> completed,
        failedTasks |-> st.totalTasks - completed - running]

getStats(q, st) == updateStats(q, st)

Start ==
    /\ ~isRunning
    /\ isRunning' = TRUE
    /\ UNCHANGED <<queueVars, histVars, priceVars, analyzerVars, config, stats, cyclePc, cycleTasks,
                   proc>>

Stop ==
    /\ isRunning
    /\ isRunning' = FALSE
    /\ UNCHANGED <<queueVars, histVars, priceVars, analyzerVars, config, stats, cyclePc, cycleTasks,
                   proc>>

AddSchedulerTask(type, priority, marketplace) ==
    /\ Cardinality(DOMAIN tasks) < MaxSchedulerTasks
    /\ LET id == uuidv4(TQ)
           q2 == addTask(TQ, [type |-> type, target |-> "B00",
                              marketplace |-> marketplace, priority |-> priority,
                              maxRetries |-> SchedulerMaxRetries])
       IN /\ SetTQ(q2)
          /\ Track(q2, {}, {}, <<id>>, durationLog)
    /\ stats' = [stats EXCEPT !.totalTasks = @ + 1]
    /\ UNCHANGED <<priceVars, analyzerVars, config, isRunning, cyclePc, cycleTasks, proc>>

AddProductTask(priority) ==
    AddSchedulerTask("product", priority, "DE")

AddCategoryTask(priority, marketplace) ==
    AddSchedulerTask("category", priority, marketplace)

\* runCycle up to its await: the early return on an empty queue, the dequeue
\* of the batch, and tasks.map(processTask), which runs every processTask up
\* to its own first await, the call of the scraper.
\* runCycle asking for batchSize tasks, whatever maxConcurrentScrapes is.
runCycleBatchSizeOnly(q, cfg) ==
    IF Len(q.queue) = 0 THEN [q |-> q, tasks |-> <<>>]
    ELSE getNextTasks(q, cfg.batchSize)

runCycleBatch(q, cfg) ==
    IF Len(q.queue) = 0 THEN [q |-> q, tasks |-> <<>>]
    ELSE getNextTasks(q, Min(cfg.batchSize, cfg.maxConcurrentScrapes))

processTaskStart(task) ==
    [pc |-> "scraping", scrapes |-> 1, completes |-> 0, fails |-> 0]

\* a cron job that stop() leaves scheduled: runCycle is called whether or
\* not the scheduler is running.
RunCycleAfterStop(c) ==
    /\ cyclePc[c] = "idle"
    /\ \A d \in Cycles : d < c => cyclePc[d] # "idle"
    /\ LET r == runCycleBatch(TQ, config)
           batch == SeqToSet(r.tasks)
       IN /\ SetTQ(r.q)
          /\ Track(r.q, batch, {}, <<>>, durationLog)
          /\ cyclePc' = [cyclePc EXCEPT ![c] = IF r.tasks = <<>> THEN "idle" ELSE "awaiting"]
          /\ cycleTasks' = [cycleTasks EXCEPT ![c] = r.tasks]
          /\ proc' = [proc EXCEPT ![c] = [t \in TaskIds |->
                         IF t \in batch THEN processTaskStart(t) ELSE NoProc]]
    /\ UNCHANGED <<priceVars, analyzerVars, config, isRunning, stats>>

\* The cron job (set while isRunning) calls runCycle without awaiting it.
RunCycle(c) ==
    /\ isRunning
    /\ cyclePc[c] = "idle"
    /\ \A d \in Cycles : d < c => cyclePc[d] # "idle"   \* invocations are alike
    /\ LET r == runCycleBatch(TQ, config)
           batch == SeqToSet(r.tasks)
       IN /\ SetTQ(r.q)
          /\ Track(r.q, batch, {}, <<>>, durationLog)
          /\ cyclePc' = [cyclePc EXCEPT ![c] = IF r.tasks = <<>> THEN "idle" ELSE "awaiting"]
          /\ cycleTasks' = [cycleTasks EXCEPT ![c] = r.tasks]
          /\ proc' = [proc EXCEPT ![c] = [t \in TaskIds |->
                         IF t \in batch THEN processTaskStart(t) ELSE NoProc]]
    /\ UNCHANGED <<priceVars, analyzerVars, config, isRunning, stats>>

\* processTask's tail: completeTask in the try block, failTask in the catch.
processTaskComplete(q, p, taskId) ==
    [q |-> completeTask(q, taskId, [success |-> TRUE], 0),
     p |-> [p EXCEPT !.pc = "done", !.completes = @ + 1]]

\* a catch block that logs the error and records nothing.
processTaskCatchSwallows(q, p, taskId, error) ==
    [q |-> q, p |-> [p EXCEPT !.pc = "done"]]

\* a catch block that records the failure and calls the scraper once more.
processTaskCatchRetries(q, p, taskId, error) ==
    [q |-> failTask(q, taskId, error),
     p |-> [p EXCEPT !.pc = "scraping", !.fails = @ + 1, !.scrapes = @ + 1]]

processTaskCatch(q, p, taskId, error) ==
    [q |-> failTask(q, taskId, error),
     p |-> [p EXCEPT !.pc = "done", !.fails = @ + 1]]

\* The log of durations after a step of processTask(t) that leaves the queue
\* as q2; the clock stands still while the scheduler runs.
LogAfter(q2, t) ==
    IF tasks[t].status # "completed" /\ q2.tasks[t].status = "completed"
    THEN Append(durationLog, 0) ELSE durationLog

\* an error that escapes processTask: Promise.all rejects, and the catch block
\* of runCycle ends the cycle while other tasks of the batch are outstanding.
ResumeRejectsCycle(c, t, r, failed, inserted) ==
    /\ SetTQ(r.q)
    /\ Track(r.q, {}, failed, inserted, LogAfter(r.q, t))
    /\ IF r.p.fails > proc[c][t].fails
       THEN /\ proc' = [proc EXCEPT ![c] = [u \in TaskIds |-> NoProc]]
            /\ cyclePc' = [cyclePc EXCEPT ![c] = "idle"]
            /\ cycleTasks' = [cycleTasks EXCEPT ![c] = <<>>]
       ELSE /\ proc' = [proc EXCEPT ![c][t] = r.p]
            /\ UNCHANGED <<cyclePc, cycleTasks>>
    /\ UNCHANGED <<priceVars, analyzerVars, config, isRunning, stats>>

Resume(c, t, r, failed, inserted) ==
    /\ SetTQ(r.q)
    /\ Track(r.q, {}, failed, inserted, LogAfter(r.q, t))
    /\ proc' = [proc EXCEPT ![c][t] = r.p]
    /\ UNCHANGED <<priceVars, analyzerVars, config, isRunning, stats, cyclePc, cycleTasks>>

Requeued(q2, t) == IF t \in SeqToSet(q2.queue) THEN <<t>> ELSE <<>>

\* if (deal.tier !== 'low' || deal.metrics.margin >= 25)
NotifyMargin == 25

sendsNotification(deal) ==
    deal.tier # "low" \/ ~RatioLt(deal.metrics.margin, Num(NotifyMargin))

\* processTask of a product task whose scrape succeeded and whose analysis
\* gave `metrics`: await sendDealNotification(deal) if the condition holds,
\* completeTask otherwise.
processProductSuccess(q, p, taskId, metrics) ==
    IF sendsNotification(analyzeMetrics(TierConfigs, metrics))
    THEN [q |-> q, p |-> [p EXCEPT !.pc = "notifying"]]
    ELSE processTaskComplete(q, p, taskId)

\* scrapeProduct settles for a product task: it reports failure or throws
\* (the catch block), or it has data; then analyze may throw, the deal asks
\* for a notification (processTask awaits it) or not (completeTask).
ScrapeProductReturn(c, t) ==
    /\ proc[c][t].pc = "scraping"
    /\ tasks[t].type = "product"
    /\ \/ LET r == processTaskCatch(TQ, proc[c][t], t, ErrorMessage)
          IN Resume(c, t, r, {t} \cap runningTasks, Requeued(r.q, t))
       \/ \E m \in MetricsSamples :
            LET r == processProductSuccess(TQ, proc[c][t], t, m)
            IN Resume(c, t, r, {}, <<>>)

\* sendDealNotification settles: it resolves (completeTask) or throws (catch).
NotifyReturn(c, t) ==
    /\ proc[c][t].pc = "notifying"
    /\ \/ LET r == processTaskComplete(TQ, proc[c][t], t)
          IN Resume(c, t, r, {}, <<>>)
       \/ LET r == processTaskCatch(TQ, proc[c][t], t, ErrorMessage)
          IN Resume(c, t, r, {t} \cap runningTasks, Requeued(r.q, t))

\* result.data.asins.map((asin) => ({ type: 'product', target: asin,
\* marketplace: task.marketplace, priority: task.priority, maxRetries: 3 }))
\* the map giving every new task the default priority 1.
categoryNewTasksDefaultPriority(task, asins) ==
    [i \in 1..Len(asins) |->
        [type |-> "product", target |-> asins[i],
         marketplace |-> task.marketplace, priority |-> 1,
         maxRetries |-> SchedulerMaxRetries]]

categoryNewTasks(task, asins) ==
    [i \in 1..Len(asins) |->
        [type |-> "product", target |-> asins[i],
         marketplace |-> task.marketplace, priority |-> task.priority,
         maxRetries |-> SchedulerMaxRetries]]

\* processTask adding the discovered tasks and then failing the category task.
processCategorySuccessThenFails(q, p, taskId, asins) ==
    processTaskCatch(addTasks(q, categoryNewTasks(q.tasks[taskId], asins)),
                     p, taskId, ErrorMessage)

\* processTask of a category task whose scrape succeeded with `asins`:
\* addTasks(newTasks), then completeTask.
processCategorySuccess(q, p, taskId, asins) ==
    processTaskComplete(addTasks(q, categoryNewTasks(q.tasks[taskId], asins)),
                        p, taskId)

\* scrapeCategory settles for a category task: failure or a throw (catch), or
\* n discovered asins, each added as a product task before completeTask.
ScrapeCategoryReturn(c, t) ==
    /\ proc[c][t].pc = "scraping"
    /\ tasks[t].type = "category"
    /\ \/ LET r == processTaskCatch(TQ, proc[c][t], t, ErrorMessage)
          IN Resume(c, t, r, {t} \cap runningTasks, Requeued(r.q, t))
       \/ \E n \in 0..(MaxSchedulerTasks - Cardinality(DOMAIN tasks)) :
            LET first == uuidv4(TQ)
                r == processCategorySuccess(TQ, proc[c][t], t,
                                            SubSeq(DiscoveredAsins, 1, n))
            IN Resume(c, t, r, {}, [i \in 1..n |-> first + i - 1])

\* await Promise.all(promises) resolves: every processTask has returned.
CycleEnd(c) ==
    /\ cyclePc[c] = "awaiting"
    /\ \A t \in SeqToSet(cycleTasks[c]) : proc[c][t].pc = "done"
    /\ stats' = [totalTasks |-> updateStats(TQ, stats).totalTasks]
    /\ cyclePc' = [cyclePc EXCEPT ![c] = "idle"]
    /\ cycleTasks' = [cycleTasks EXCEPT ![c] = <<>>]
    /\ proc' = [proc EXCEPT ![c] = [t \in TaskIds |-> NoProc]]
    /\ UNCHANGED <<queueVars, histVars, priceVars, analyzerVars, config, isRunning>>

Next ==
    \/ Start
    \/ Stop
    \/ \E p \in Priorities : AddProductTask(p)
    \/ \E p \in Priorities, m \in Marketplaces : AddCategoryTask(p, m)
    \/ \E c \in Cycles : RunCycle(c)
    \/ \E c \in Cycles, t \in TaskIds : ScrapeProductReturn(c, t)
    \/ \E c \in Cycles, t \in TaskIds : ScrapeCategoryReturn(c, t)
    \/ \E c \in Cycles, t \in TaskIds : NotifyReturn(c, t)
    \/ \E c \in Cycles : CycleEnd(c)

Spec == Init /\ [][Next]_vars

\* The scheduler as main() leaves it, started and not stopped again, with
\* the progress its environment provides: the cron job keeps calling
\* runCycle, the scraper and the notifier settle every call, and a settled
\* Promise.all resumes runCycle.  runCycle reads the configuration only as
\* Math.min(batchSize, maxConcurrentScrapes), so batchSize is held at its
\* largest value and maxConcurrentScrapes ranges; the marketplace of a task,
\* which no step of the scheduler reads, is held at one value.
StartedInit ==
    /\ tasks = <<>>
    /\ queue = <<>>
    /\ runningTasks = {}
    /\ completedTasks = <<>>
    /\ taskDurations = <<>>
    /\ durationLog = <<>>
    /\ config \in [batchSize : {MaxBatch}, maxConcurrentScrapes : 1..MaxBatch]
    /\ isRunning = TRUE
    /\ stats = [totalTasks |-> 0]
    /\ cyclePc = [c \in Cycles |-> "idle"]
    /\ cycleTasks = [c \in Cycles |-> <<>>]
    /\ proc = [c \in Cycles |-> [t \in TaskIds |-> NoProc]]
    /\ handedOut = [t \in TaskIds |-> 0]
    /\ failures = [t \in TaskIds |-> 0]
    /\ requeues = [t \in TaskIds |-> 0]
    /\ insertionOrder = <<>>
    /\ history = <<>>
    /\ lastPrices = <<>>
    /\ now = 0
    /\ alert = <<>>
    /\ added = [k \in PriceKeys |-> <<>>]
    /\ AnalyzerInit

Settle ==
    \E c \in Cycles, t \in TaskIds :
        \/ ScrapeProductReturn(c, t)
        \/ ScrapeCategoryReturn(c, t)
        \/ NotifyReturn(c, t)

StartedNext ==
    \/ \E p \in Priorities : AddProductTask(p)
    \/ \E p \in Priorities : AddCategoryTask(p, "DE")
    \/ \E c \in Cycles : RunCycle(c)
    \/ Settle
    \/ \E c \in Cycles : CycleEnd(c)

Fairness ==
    /\ WF_vars(\E c \in Cycles : RunCycle(c))
    /\ WF_vars(Settle)
    /\ WF_vars(\E c \in Cycles : CycleEnd(c))

LiveSpec == StartedInit /\ [][StartedNext]_vars /\ Fairness

\* The scheduler started and stopped at will, with the progress the scraper,
\* the notifier and Promise.all provide; nothing obliges the cron job to
\* fire.  Priority, marketplace and the size of a batch, which stop() and
\* the dispatches do not read, are held at one value.
StopInit ==
    Init /\ config = [batchSize |-> MaxBatch, maxConcurrentScrapes |-> MaxBatch]

StopNext ==
    \/ Start
    \/ Stop
    \/ AddProductTask(1)
    \/ AddCategoryTask(1, "DE")
    \/ \E c \in Cycles : RunCycle(c)
    \/ Settle
    \/ \E c \in Cycles : CycleEnd(c)

StopFairness ==
    /\ WF_vars(Settle)
    /\ WF_vars(\E c \in Cycles : CycleEnd(c))

StopSpec == StopInit /\ [][StopNext]_vars /\ StopFairness

(* -------------------------- PriceHistoryManager ------------------------ *)
\* Prices are Decimal values, here whole numbers of the currency's smallest
\* unit; a quotient of two of them is a Ratio.
\* Dates are whole numbers of days.  A method's null is the empty sequence
\* and any other value v is <<v>>.
MaxHistoryEntries == 1000   \* if (history.length > 1000) history.shift()
DefaultDays == 30           \* days: number = 30

\* The PriceHistoryManager object.
PH == [history |-> history, lastPrices |-> lastPrices]

Remove(f, k) == [x \in DOMAIN f \ {k} |-> f[x]]

\* addPriceEntry dropping the newest entry when the series is over its limit.
addPriceEntryPopsNewest(ph, entry) ==
    LET key == getKey(entry.asin, entry.marketplace)
        changed == /\ key \in DOMAIN ph.lastPrices
                   /\ ph.lastPrices[key] # entry.price
        lastPrice == ph.lastPrices[key]
        changeAmount == entry.price - lastPrice
        found == [asin |-> entry.asin, marketplace |-> entry.marketplace,
                  oldPrice |-> lastPrice, newPrice |-> entry.price,
                  changeAmount |-> changeAmount,
                  changePercentage |-> IF lastPrice > 0
                                       THEN Ratio(changeAmount * 100, lastPrice)
                                       ELSE Ratio(0, 1),
                  timestamp |-> entry.timestamp]
        series == IF key \in DOMAIN ph.history THEN ph.history[key] ELSE <<>>
        pushed == Append(series, entry)
        limited == IF Len(pushed) > MaxHistoryEntries
                   THEN SubSeq(pushed, 1, Len(pushed) - 1) ELSE pushed
    IN [ph |-> [history |-> (key :> limited) @@ ph.history,
                lastPrices |-> (key :> entry.price) @@ ph.lastPrices],
        alert |-> IF changed THEN <<found>> ELSE <<>>]

\* addPriceEntry alerting whenever the key has a last price, changed or not.
addPriceEntryAlertsOnRepeat(ph, entry) ==
    LET key == getKey(entry.asin, entry.marketplace)
        changed == key \in DOMAIN ph.lastPrices
        lastPrice == ph.lastPrices[key]
        changeAmount == entry.price - lastPrice
        found == [asin |-> entry.asin, marketplace |-> entry.marketplace,
                  oldPrice |-> lastPrice, newPrice |-> entry.price,
                  changeAmount |-> changeAmount,
                  changePercentage |-> IF lastPrice > 0
                                       THEN Ratio(changeAmount * 100, lastPrice)
                                       ELSE Ratio(0, 1),
                  timestamp |-> entry.timestamp]
        series == IF key \in DOMAIN ph.history THEN ph.history[key] ELSE <<>>
        pushed == Append(series, entry)
        limited == IF Len(pushed) > MaxHistoryEntries THEN Tail(pushed) ELSE pushed
    IN [ph |-> [history |-> (key :> limited) @@ ph.history,
                lastPrices |-> (key :> entry.price) @@ ph.lastPrices],
        alert |-> IF changed THEN <<found>> ELSE <<>>]

\* addPriceEntry taking the percentage of the new price.
addPriceEntryPercentOfNew(ph, entry) ==
    LET key == getKey(entry.asin, entry.marketplace)
        changed == /\ key \in DOMAIN ph.lastPrices
                   /\ ph.lastPrices[key] # entry.price
        lastPrice == ph.lastPrices[key]
        changeAmount == entry.price - lastPrice
        found == [asin |-> entry.asin, marketplace |-> entry.marketplace,
                  oldPrice |-> lastPrice, newPrice |-> entry.price,
                  changeAmount |-> changeAmount,
                  changePercentage |-> IF entry.price > 0
                                       THEN Ratio(changeAmount * 100, entry.price)
                                       ELSE Ratio(0, 1),
                  timestamp |-> entry.timestamp]
        series == IF key \in DOMAIN ph.history THEN ph.history[key] ELSE <<>>
        pushed == Append(series, entry)
        limited == IF Len(pushed) > MaxHistoryEntries THEN Tail(pushed) ELSE pushed
    IN [ph |-> [history |-> (key :> limited) @@ ph.history,
                lastPrices |-> (key :> entry.price) @@ ph.lastPrices],
        alert |-> IF changed THEN <<found>> ELSE <<>>]

\* lastPrice is a Decimal object and so truthy whatever its value: the test
\* `lastPrice && ...` asks whether the key has a last price.
addPriceEntry(ph, entry) ==
    LET key == getKey(entry.asin, entry.marketplace)
        changed == /\ key \in DOMAIN ph.lastPrices
                   /\ ph.lastPrices[key] # entry.price
        lastPrice == ph.lastPrices[key]
        changeAmount == entry.price - lastPrice
        found == [asin |-> entry.asin, marketplace |-> entry.marketplace,
                  oldPrice |-> lastPrice, newPrice |-> entry.price,
                  changeAmount |-> changeAmount,
                  changePercentage |-> IF lastPrice > 0
                                       THEN Ratio(changeAmount * 100, lastPrice)
                                       ELSE Ratio(0, 1),
                  timestamp |-> entry.timestamp]
        series == IF key \in DOMAIN ph.history THEN ph.history[key] ELSE <<>>
        pushed == Append(series, entry)
        limited == IF Len(pushed) > MaxHistoryEntries THEN Tail(pushed) ELSE pushed
    IN [ph |-> [history |-> (key :> limited) @@ ph.history,
                lastPrices |-> (key :> entry.price) @@ ph.lastPrices],
        alert |-> IF changed THEN <<found>> ELSE <<>>]

\* limit is <<>> when the argument is left out; `if (limit)` is false for 0.
getPriceHistory(ph, asin, marketplace, limit) ==
    LET key == getKey(asin, marketplace)
        series == IF key \in DOMAIN ph.history THEN ph.history[key] ELSE <<>>
        n == Len(series)
    IN IF limit # <<>> /\ limit[1] # 0
       THEN SubSeq(series, IF limit[1] < n THEN n - limit[1] + 1 ELSE 1, n)
       ELSE series

getLastPrice(ph, asin, marketplace) ==
    LET key == getKey(asin, marketplace)
    IN IF key \in DOMAIN ph.lastPrices THEN <<ph.lastPrices[key]>> ELSE <<>>

\* a window that filters nothing out: every entry of the series counts.
recentEntriesUnfiltered(ph, asin, marketplace, days, clock) ==
    LET key == getKey(asin, marketplace)
    IN IF key \in DOMAIN ph.history THEN ph.history[key] ELSE <<>>

\* history.filter((entry) => entry.timestamp >= cutoffDate), the cutoff being
\* the clock set back by `days` days.
recentEntries(ph, asin, marketplace, days, clock) ==
    LET key == getKey(asin, marketplace)
        series == IF key \in DOMAIN ph.history THEN ph.history[key] ELSE <<>>
        cutoffDate == clock - days
    IN SelectSeq(series, LAMBDA entry : entry.timestamp >= cutoffDate)

RECURSIVE sumPrices(_)
sumPrices(entries) ==
    IF entries = <<>> THEN 0
    ELSE sumPrices(SubSeq(entries, 1, Len(entries) - 1)) + entries[Len(entries)].price

\* a reduction that keeps its initial value, the price of the first entry.
reduceLowestKeepsFirst(entries, min) == min

RECURSIVE reduceLowest(_, _)
reduceLowest(entries, min) ==
    IF entries = <<>> THEN min
    ELSE reduceLowest(Tail(entries),
                      IF Head(entries).price < min THEN Head(entries).price ELSE min)

RECURSIVE reduceHighest(_, _)
reduceHighest(entries, max) ==
    IF entries = <<>> THEN max
    ELSE reduceHighest(Tail(entries),
                       IF Head(entries).price > max THEN Head(entries).price ELSE max)

getAveragePrice(ph, asin, marketplace, days, clock) ==
    LET recent == recentEntries(ph, asin, marketplace, days, clock)
    IN IF recent = <<>> THEN <<>>
       ELSE <<Ratio(sumPrices(recent), Len(recent))>>

getLowestPrice(ph, asin, marketplace, days, clock) ==
    LET recent == recentEntries(ph, asin, marketplace, days, clock)
    IN IF recent = <<>> THEN <<>>
       ELSE <<reduceLowest(recent, recent[1].price)>>

getHighestPrice(ph, asin, marketplace, days, clock) ==
    LET recent == recentEntries(ph, asin, marketplace, days, clock)
    IN IF recent = <<>> THEN <<>>
       ELSE <<reduceHighest(recent, recent[1].price)>>

\* clearHistory deleting the series and leaving the last price behind.
clearHistoryKeepsLastPrice(ph, asin, marketplace) ==
    [history |-> Remove(ph.history, getKey(asin, marketplace)),
     lastPrices |-> ph.lastPrices]

clearHistory(ph, asin, marketplace) ==
    LET key == getKey(asin, marketplace)
    IN [history |-> Remove(ph.history, key),
        lastPrices |-> Remove(ph.lastPrices, key)]

clearAllHistory(ph) == [history |-> <<>>, lastPrices |-> <<>>]

(* ------------- calls on the PriceHistoryManager's interface ------------ *)
\* one more entry for a key that has had fewer than `limit` since it was
\* last cleared.
AddPriceEntry(asin, marketplace, price, timestamp, limit) ==
    LET key == getKey(asin, marketplace)
        entry == [asin |-> asin, marketplace |-> marketplace,
                  price |-> price, timestamp |-> timestamp]
        r == addPriceEntry(PH, entry)
    IN /\ Len(added[key]) < limit
       /\ history' = r.ph.history
       /\ lastPrices' = r.ph.lastPrices
       /\ alert' = r.alert
       /\ added' = [added EXCEPT ![key] = Append(@, entry)]
       /\ UNCHANGED <<now, queueVars, schedVars, histVars,
                    analyzerVars>>

ClearHistory(asin, marketplace) ==
    LET ph2 == clearHistory(PH, asin, marketplace)
    IN /\ history' = ph2.history
       /\ lastPrices' = ph2.lastPrices
       /\ added' = [added EXCEPT ![getKey(asin, marketplace)] = <<>>]
       /\ UNCHANGED <<now, alert, queueVars, schedVars, histVars,
                    analyzerVars>>

ClearAllHistory ==
    LET ph2 == clearAllHistory(PH)
    IN /\ history' = ph2.history
       /\ lastPrices' = ph2.lastPrices
       /\ added' = [k \in PriceKeys |-> <<>>]
       /\ UNCHANGED <<now, alert, queueVars, schedVars, histVars,
                    analyzerVars>>

\* Time passes between two calls: the clock moves on to a later sample.
Tick(later) ==
    /\ later > now
    /\ now' = later
    /\ UNCHANGED <<history, lastPrices, alert, added, queueVars, schedVars, histVars,
                    analyzerVars>>

\* A PriceHistoryManager on its own under any sequence of addPriceEntry,
\* clearHistory and clearAllHistory calls on three keys; every entry is
\* stamped with the one date of the run.
PriceNext ==
    \/ \E k \in PriceKeys, p \in Prices : AddPriceEntry(k[1], k[2], p, now, MaxSeries)
    \/ \E k \in PriceKeys : ClearHistory(k[1], k[2])
    \/ ClearAllHistory

PriceSpec == QueueInit /\ [][PriceNext]_vars

\* One key's series under entries stamped with any of the sample dates, while
\* the clock moves from sample to sample.
WindowNext ==
    \/ \E p \in WindowPrices, ts \in TimeSamples :
          AddPriceEntry("B01", "DE", p, ts, MaxWindowSeries)
    \/ ClearHistory("B01", "DE")
    \/ \E later \in TimeSamples : Tick(later)

WindowSpec == QueueInit /\ [][WindowNext]_vars

\* One key's series growing past its limit: the i-th entry added has price i.
CapNext ==
    /\ Len(added[getKey("B01", "DE")]) < MaxAdds
    /\ AddPriceEntry("B01", "DE", Len(added[getKey("B01", "DE")]) + 1, now, MaxAdds)

CapSpec == QueueInit /\ [][CapNext]_vars

\* One key's series under the prices of the repository's tests (100, 90, 95),
\* dated with any of the sample dates, while the clock moves on.
ScenarioPrices == {90, 95, 100}

ScenarioNext ==
    \/ \E p \in ScenarioPrices, ts \in TimeSamples :
          AddPriceEntry("B01", "DE", p, ts, MaxWindowSeries)
    \/ ClearHistory("B01", "DE")
    \/ \E later \in TimeSamples : Tick(later)

ScenarioSpec == QueueInit /\ [][ScenarioNext]_vars

(* ------------------------- properties: task queue ---------------------- *)
Status(t) == tasks[t].status
Pending == SeqToSet(queue)

\* C1: a task that has failed (failTask recorded at least one failure of it)
\* maxRetries times or more is Failed, and no later step hands it out again
\* or puts it back into the pending list, whichever call the step is.
Exhausted(t) ==
    t \in DOMAIN tasks /\ failures[t] >= 1 /\ failures[t] >= tasks[t].maxRetries

C1_ExhaustedTaskStaysFailed ==
    /\ [](\A t \in TaskIds : Exhausted(t) => Status(t) = "failed" /\ t \notin Pending)
    /\ [][\A t \in TaskIds : Exhausted(t) =>
             /\ handedOut'[t] = handedOut[t]
             /\ tasks'[t].status = "failed"
             /\ t \notin SeqToSet(queue')]_vars

C1_Witness ==
    \E t \in DOMAIN tasks :
        /\ tasks[t].maxRetries >= 2
        /\ failures[t] = tasks[t].maxRetries
        /\ Status(t) = "failed"
        /\ \E u \in DOMAIN tasks : u > t /\ handedOut[u] >= 1

\* C2 as stated: failTask on a running task requeues it when the retryCount
\* BEFORE the call is below maxRetries, and fails it for good otherwise.
FailTaskOutcome(t, retriesLeft) ==
    IF retriesLeft
    THEN /\ tasks'[t].status = "pending"
         /\ tasks'[t].retryCount = tasks[t].retryCount + 1
         /\ tasks'[t].startedAt = Undefined
         /\ tasks'[t].error # Undefined
         /\ t \in SeqToSet(queue')
         /\ t \notin runningTasks'
         /\ requeues'[t] = requeues[t] + 1
    ELSE /\ tasks'[t].status = "failed"
         /\ tasks'[t].error # Undefined
         /\ t \in DOMAIN completedTasks'
         /\ completedTasks'[t].error = tasks'[t].error
         /\ t \notin SeqToSet(queue')
         /\ t \notin runningTasks'
         /\ requeues'[t] = requeues[t]

C2_Original ==
    [][\A t \in TaskIds : failures'[t] # failures[t] =>
          FailTaskOutcome(t, tasks[t].retryCount < tasks[t].maxRetries)]_vars

\* C2 as amended: the comparison is made with the retryCount AFTER the
\* increment: the task is requeued when retryCount + 1 < maxRetries, and
\* becomes Failed (retryCount incremented too) otherwise.
C2_FailTaskComparesIncrementedCount ==
    [][\A t \in TaskIds : failures'[t] # failures[t] =>
          /\ t \in runningTasks
          /\ tasks[t].status = "running"
          /\ tasks'[t].retryCount = tasks[t].retryCount + 1
          /\ FailTaskOutcome(t, tasks[t].retryCount + 1 < tasks[t].maxRetries)]_vars

C2_Witness ==
    /\ \E t \in DOMAIN tasks : Status(t) = "pending" /\ requeues[t] = 1 /\ t \in Pending
    /\ \E t \in DOMAIN tasks : Status(t) = "failed" /\ failures[t] = 2

\* C3: no id is pending and running at once, no id is twice in the pending
\* list, and a task is handed out at most once more than failTask requeued it.
C3_NoDoubleAssignment ==
    /\ Pending \cap runningTasks = {}
    /\ Cardinality(Pending) = Len(queue)
    /\ \A t \in TaskIds : handedOut[t] <= requeues[t] + 1

C3_Witness ==
    \E t \in runningTasks :
        /\ handedOut[t] = 2
        /\ requeues[t] = 1
        /\ \E u \in Pending : requeues[u] = 1

\* C4: a task's status changes only Pending -> Running (by a dequeue),
\* Running -> Completed (by completeTask), Running -> Pending (a requeue by
\* failTask) or Running -> Failed (failTask, no requeue); Completed and Failed
\* never change.
C4_StatusTransitions ==
    [][\A t \in DOMAIN tasks : tasks'[t].status # tasks[t].status =>
          \/ /\ tasks[t].status = "pending" /\ tasks'[t].status = "running"
             /\ handedOut'[t] = handedOut[t] + 1
          \/ /\ tasks[t].status = "running" /\ tasks'[t].status = "completed"
             /\ failures'[t] = failures[t]
             /\ t \in DOMAIN completedTasks' /\ completedTasks'[t].success
          \/ /\ tasks[t].status = "running" /\ tasks'[t].status = "pending"
             /\ failures'[t] = failures[t] + 1 /\ requeues'[t] = requeues[t] + 1
          \/ /\ tasks[t].status = "running" /\ tasks'[t].status = "failed"
             /\ failures'[t] = failures[t] + 1 /\ requeues'[t] = requeues[t]]_vars

C4_Witness ==
    /\ \E t \in DOMAIN tasks : Status(t) = "completed" /\ requeues[t] = 1
    /\ \E t \in DOMAIN tasks : Status(t) = "failed" /\ requeues[t] = 1

\* C6: the pending list is in descending priority, and tasks of equal
\* priority stand in the order in which they were put into the pending list
\* (by addTask or by a requeue).
Position(s, x) == CHOOSE k \in 1..Len(s) : s[k] = x

C6_PendingOrder ==
    /\ SeqToSet(insertionOrder) = Pending
    /\ \A i, j \in 1..Len(queue) : i < j =>
          /\ tasks[queue[i]].priority >= tasks[queue[j]].priority
          /\ tasks[queue[i]].priority = tasks[queue[j]].priority =>
                Position(insertionOrder, queue[i]) < Position(insertionOrder, queue[j])

C6_Witness ==
    /\ Len(queue) = 3
    /\ tasks[queue[1]].priority = tasks[queue[2]].priority
    /\ tasks[queue[2]].priority > tasks[queue[3]].priority
    /\ queue[1] > queue[2]
    /\ requeues[queue[2]] = 1

\* C7: in every reachable state and for every count, getNextTasks(count)
\* returns the first min(count, pending length) tasks of the pending list,
\* each Running with startedAt stamped, in the running map and out of the
\* pending list, which keeps the other tasks in their order.
C7_GetNextTasksTakesHead ==
    \A count \in 0..MaxCount :
        LET r == getNextTasks(TQ, count)
            n == Min(count, Len(queue))
        IN /\ r.tasks = SubSeq(queue, 1, n)
           /\ r.q.queue = SubSeq(queue, n + 1, Len(queue))
           /\ \A i \in 1..n :
                 /\ r.q.tasks[queue[i]].status = "running"
                 /\ r.q.tasks[queue[i]].startedAt = Stamped
                 /\ queue[i] \in r.q.runningTasks
                 /\ queue[i] \notin SeqToSet(r.q.queue)

C7_Witness ==
    /\ Len(queue) >= 1
    /\ Cardinality(runningTasks) >= 2
    /\ \A t \in runningTasks : handedOut[t] = 1 /\ tasks[t].startedAt = Stamped
    /\ \E t \in runningTasks : tasks[t].priority > tasks[queue[1]].priority

(* ------------------------- properties: scheduler ----------------------- *)
InFlight(c, t) == proc[c][t].pc \in {"scraping", "notifying"}

\* C8: a cycle never starts on an empty pending list; a cycle that starts
\* takes the first min(batchSize, maxConcurrentScrapes, pending length) tasks
\* of the pending list, none of which has a lower priority than a task left
\* behind, and has called the scraper for every one of them.
C8_CycleBatch ==
    /\ [](queue = <<>> => runCycleBatch(TQ, config) = [q |-> TQ, tasks |-> <<>>])
    /\ [][\A c \in Cycles : (cyclePc[c] = "idle" /\ cyclePc'[c] = "awaiting") =>
            LET n == Min(Min(config.batchSize, config.maxConcurrentScrapes), Len(queue))
            IN /\ n >= 1
               /\ cycleTasks'[c] = SubSeq(queue, 1, n)
               /\ queue' = SubSeq(queue, n + 1, Len(queue))
               /\ \A i \in 1..n : \A j \in (n + 1)..Len(queue) :
                     tasks[queue[i]].priority >= tasks[queue[j]].priority
               /\ \A i \in 1..n :
                     /\ tasks'[queue[i]].status = "running"
                     /\ proc'[c][queue[i]].pc = "scraping"
                     /\ proc'[c][queue[i]].scrapes = 1]_vars

C8_Witness ==
    \E c \in Cycles :
        /\ cyclePc[c] = "awaiting"
        /\ Len(cycleTasks[c]) = 1
        /\ config.batchSize = 2
        /\ config.maxConcurrentScrapes = 1
        /\ InFlight(c, cycleTasks[c][1])
        /\ Len(queue) = 1
        /\ tasks[queue[1]].priority < tasks[cycleTasks[c][1]].priority

\* C9: when a cycle ends, each task of its batch has had exactly one call of
\* completeTask or failTask from this cycle, and is no longer Running unless
\* a later cycle has dequeued it again and is processing it.
C9_CycleEndsAfterAllOutcomes ==
    [][\A c \in Cycles : (cyclePc[c] = "awaiting" /\ cyclePc'[c] = "idle") =>
          \A t \in SeqToSet(cycleTasks[c]) :
              /\ proc[c][t].completes + proc[c][t].fails = 1
              /\ \/ tasks[t].status \in {"completed", "failed", "pending"}
                 \/ \E d \in Cycles \ {c} : InFlight(d, t)]_vars

C9_Witness ==
    \E c \in Cycles :
        /\ cyclePc[c] = "awaiting"
        /\ Len(cycleTasks[c]) = 2
        /\ \A t \in SeqToSet(cycleTasks[c]) : proc[c][t].pc = "done"
        /\ proc[c][cycleTasks[c][1]].fails = 1
        /\ proc[c][cycleTasks[c][2]].completes = 1

\* C10: a dispatch calls the scraper exactly once; when it ends in failure it
\* has called failTask once and completeTask never, and it is over.  A task
\* is handed out again only by a cycle that starts, which calls the scraper
\* for it once.
C10_NoRetryInsideDispatch ==
    /\ [](\A c \in Cycles, t \in TaskIds :
            /\ proc[c][t].pc # "none" => proc[c][t].scrapes = 1
            /\ proc[c][t].fails <= 1
            /\ proc[c][t].fails = 1 =>
                  proc[c][t].pc = "done" /\ proc[c][t].completes = 0)
    /\ [][\A t \in TaskIds :
            /\ failures'[t] # failures[t] =>
                  \E c \in Cycles : /\ InFlight(c, t)
                                    /\ proc'[c][t].pc = "done"
                                    /\ proc'[c][t].fails = 1
            /\ handedOut'[t] # handedOut[t] =>
                  \E c \in Cycles : /\ cyclePc[c] = "idle"
                                    /\ cyclePc'[c] = "awaiting"
                                    /\ proc'[c][t].scrapes = 1]_vars

C10_Witness ==
    \E c, d \in Cycles, t \in TaskIds :
        /\ c # d
        /\ proc[c][t].pc = "done"
        /\ proc[c][t].fails = 1
        /\ InFlight(d, t)
        /\ handedOut[t] = 2

\* C5: while the scheduler keeps running and dispatches keep settling, a task
\* that failTask has put back into the pending list is eventually dequeued
\* again.
RequeuedAndPending(t) ==
    t \in DOMAIN tasks /\ tasks[t].status = "pending" /\ tasks[t].retryCount >= 1

IsRunning(t) == t \in DOMAIN tasks /\ tasks[t].status = "running"

Count(s, x) == Cardinality({i \in 1..Len(s) : s[i] = x})

\* What a successful scrape of the running category task t with the ids
\* `asins` leaves behind: one new pending product task per id, in the order
\* of the ids, with the parent's priority and marketplace, and t completed.
CategoryExpanded(q, q2, t, asins) ==
    LET n == Len(asins)
        old == DOMAIN q.tasks
        new == DOMAIN q2.tasks \ old
    IN /\ Cardinality(new) = n
       /\ Len(q2.queue) = Len(q.queue) + n
       /\ \E ids \in [1..n -> new] :
            /\ \A i, j \in 1..n : ids[i] = ids[j] => i = j
            /\ \A i \in 1..n :
                 /\ q2.tasks[ids[i]].type = "product"
                 /\ q2.tasks[ids[i]].target = asins[i]
                 /\ q2.tasks[ids[i]].status = "pending"
                 /\ q2.tasks[ids[i]].retryCount = 0
                 /\ q2.tasks[ids[i]].priority = q.tasks[t].priority
                 /\ q2.tasks[ids[i]].marketplace = q.tasks[t].marketplace
                 /\ Count(q2.queue, ids[i]) = 1
                 /\ ids[i] \notin q2.runningTasks
       /\ \A u \in old \ {t} : q2.tasks[u] = q.tasks[u]
       /\ \A u \in old : Count(q2.queue, u) = Count(q.queue, u)
       /\ q2.tasks[t].status = "completed"
       /\ t \notin q2.runningTasks
       /\ t \in DOMAIN q2.completedTasks /\ q2.completedTasks[t].success

\* C11: when the scrape of a category task succeeds with N discovered ids,
\* exactly N new pending product tasks are enqueued, one per id, each with
\* the parent's priority and marketplace, and the category task is
\* completed.  Stated for every category task whose scrape is outstanding
\* and every N up to the number of ids a scrape may return here.
C11_CategoryExpansion ==
    \A c \in Cycles, t \in DOMAIN tasks :
        (proc[c][t].pc = "scraping" /\ tasks[t].type = "category") =>
            \A n \in 0..Len(DiscoveredAsins) :
                LET asins == SubSeq(DiscoveredAsins, 1, n)
                    r == processCategorySuccess(TQ, proc[c][t], t, asins)
                IN /\ CategoryExpanded(TQ, r.q, t, asins)
                   /\ r.p.pc = "done" /\ r.p.completes = 1 /\ r.p.fails = 0

\* a category task of priority 2 in the FR marketplace has been expanded and
\* completed, and its product task is pending with the same priority and
\* marketplace.
C11_Witness ==
    \E t, u \in DOMAIN tasks :
        /\ tasks[t].type = "category" /\ tasks[t].status = "completed"
        /\ tasks[t].priority = 2 /\ tasks[t].marketplace = "FR"
        /\ u > t /\ tasks[u].type = "product" /\ tasks[u].target = DiscoveredAsins[1]
        /\ tasks[u].status = "pending" /\ u \in Pending
        /\ tasks[u].priority = 2 /\ tasks[u].marketplace = "FR"

(* ------------------------ properties: notification --------------------- *)
\* C12 as stated: when the scrape of a product task succeeds, a notification
\* is requested exactly when the classifier's qualifies flag is set for the
\* analyzed deal, and a task that needs no notification is completed at once.
\* Stated for every product task whose scrape is outstanding and every
\* sample of the metrics.
C12_Original ==
    \A c \in Cycles, t \in DOMAIN tasks :
        (proc[c][t].pc = "scraping" /\ tasks[t].type = "product") =>
            \A m \in MetricsSamples :
                LET r == processProductSuccess(TQ, proc[c][t], t, m)
                IN /\ (r.p.pc = "notifying")
                        <=> classify(TierConfigs, m).qualifies
                   /\ r.p.pc # "notifying" =>
                        r.q.tasks[t].status = "completed"

(* ---------------------------- properties: stop ------------------------- *)
\* C13: while the scheduler is stopped no task is dequeued (no cycle starts),
\* and a task that a cycle dispatched before stop() still gets its outcome:
\* its processTask returns with exactly one completeTask or failTask.
C13_StopLeavesDispatchesAlone ==
    /\ [][~isRunning => handedOut' = handedOut]_vars
    /\ [][isRunning /\ ~isRunning' =>
            /\ proc' = proc /\ cyclePc' = cyclePc /\ cycleTasks' = cycleTasks
            /\ UNCHANGED queueVars]_vars
    /\ \A c \in Cycles, t \in 1..MaxSchedulerTasks :
          (~isRunning /\ InFlight(c, t))
              ~> (proc[c][t].pc = "done"
                    /\ proc[c][t].completes + proc[c][t].fails = 1)

\* stopped with a dispatch outstanding and a task still pending.
C13_Witness ==
    /\ ~isRunning
    /\ queue # <<>>
    /\ \E c \in Cycles, t \in DOMAIN tasks : InFlight(c, t)

(* ------------------------ properties: error isolation ------------------ *)
\* C14: an error in the processing of task t of a batch is recorded as one
\* failure of t and nothing else: every other task, every other dispatch of
\* this and of other cycles, the retained results of other tasks and the
\* order of the other pending tasks are as before, the cycle goes on
\* awaiting its batch, and the scheduler and its configuration are as before,
\* so that later cycles find the queue they would have found with t requeued
\* or retired in any other way.
C14_ErrorStaysWithItsTask ==
    [][\A c \in Cycles, t \in DOMAIN tasks :
          (InFlight(c, t) /\ failures'[t] > failures[t]) =>
            /\ failures'[t] = failures[t] + 1
            /\ proc'[c][t] = [proc[c][t] EXCEPT !.pc = "done", !.fails = 1]
            /\ tasks'[t].status \in {"pending", "failed"}
            /\ tasks'[t].error = ErrorMessage
            /\ runningTasks' = runningTasks \ {t}
            /\ DOMAIN tasks' = DOMAIN tasks
            /\ \A u \in DOMAIN tasks \ {t} :
                  /\ tasks'[u] = tasks[u]
                  /\ failures'[u] = failures[u]
                  /\ (u \in DOMAIN completedTasks') = (u \in DOMAIN completedTasks)
                  /\ u \in DOMAIN completedTasks =>
                        completedTasks'[u] = completedTasks[u]
            /\ SelectSeq(queue', LAMBDA u : u # t) = queue
            /\ \A d \in Cycles, u \in TaskIds :
                  <<d, u>> # <<c, t>> => proc'[d][u] = proc[d][u]
            /\ cyclePc' = cyclePc /\ cyclePc[c] = "awaiting"
            /\ cycleTasks' = cycleTasks
            /\ isRunning' = isRunning /\ config' = config /\ stats' = stats]_vars

\* one task of a batch of two has failed while the other one's scrape is
\* outstanding and the cycle is awaiting it.
C14_Witness ==
    \E c \in Cycles, t, u \in DOMAIN tasks :
        /\ t # u
        /\ cyclePc[c] = "awaiting"
        /\ {t, u} = SeqToSet(cycleTasks[c])
        /\ proc[c][t].pc = "done" /\ proc[c][t].fails = 1
        /\ InFlight(c, u)

(* ----------------------- properties: retained results ------------------ *)
\* The queue after the step.
TQAfter == [tasks |-> tasks', queue |-> queue', runningTasks |-> runningTasks',
            completedTasks |-> completedTasks', taskDurations |-> taskDurations']

\* C15: the step that completes a task makes getTaskResult return its
\* successful result, the step that makes a task terminally failed makes it
\* return a failed result with the error of that last failTask call, and a
\* result that getTaskResult returns is returned unchanged after every later
\* step except a clearCompleted or clearAll (which empty the lookup).
C15_ResultsRetainedUntilCleared ==
    [][\A t \in DOMAIN tasks :
          /\ (Status(t) = "running" /\ tasks'[t].status = "completed") =>
                getTaskResult(TQAfter, t) = <<[success |-> TRUE, error |-> Undefined]>>
          /\ (Status(t) = "running" /\ tasks'[t].status = "failed") =>
                /\ tasks'[t].error \in Errors
                /\ getTaskResult(TQAfter, t) =
                      <<[success |-> FALSE, error |-> tasks'[t].error]>>
          /\ getTaskResult(TQ, t) # <<>> =>
                \/ getTaskResult(TQAfter, t) = getTaskResult(TQ, t)
                \/ /\ completedTasks' = <<>>
                   /\ tasks' = tasks
                   /\ queue' \in {queue, <<>>}]_vars

\* a task that failed twice, with two different errors, is terminally failed
\* and its retained result carries the second error, while a task added
\* after it has completed and has its own result.
C15_Witness ==
    \E t, u \in DOMAIN tasks :
        /\ t < u
        /\ Status(t) = "failed" /\ failures[t] = 2
        /\ tasks[t].maxRetries = 2
        /\ getTaskResult(TQ, t) = <<[success |-> FALSE, error |-> "captcha"]>>
        /\ Status(u) = "completed"
        /\ getTaskResult(TQ, u) = <<[success |-> TRUE, error |-> Undefined]>>

(* ------------------------ properties: price history -------------------- *)
\* The step is an addPriceEntry call for key k.
AddsTo(k) == Len(added'[k]) = Len(added[k]) + 1

Last(entries) == entries[Len(entries)]

\* C16: addPriceEntry returns an alert if and only if an entry was recorded
\* for the same key before (since the key was last cleared) and the new price
\* differs from the price of the latest of them; the first entry of a key and
\* a repeated price return null.
C16_AlertIffPriceChanged ==
    [][\A k \in PriceKeys :
          AddsTo(k) =>
            ((alert' # <<>>) <=>
                (added[k] # <<>> /\ Last(added[k]).price # Last(added'[k]).price))]_vars

\* the latest call returned an alert for B01 in FR, where two different
\* prices are recorded, while B01 in DE holds one entry with the new price.
C16_Witness ==
    /\ alert # <<>>
    /\ getKey(alert[1].asin, alert[1].marketplace) = getKey("B01", "FR")
    /\ Len(added[getKey("B01", "FR")]) = 2
    /\ Len(added[getKey("B01", "DE")]) = 1
    /\ added[getKey("B01", "DE")][1].price = alert[1].newPrice

\* C17: an alert carries the price recorded before as oldPrice, the new price
\* as newPrice, their difference as changeAmount, and as changePercentage
\* changeAmount / oldPrice * 100, or 0 when oldPrice is not positive.
C17_AlertFields ==
    [][\A k \in PriceKeys :
          (AddsTo(k) /\ alert' # <<>>) =>
            LET old == Last(added[k]).price
                new == Last(added'[k])
                a == alert'[1]
            IN /\ getKey(a.asin, a.marketplace) = k
               /\ a.oldPrice = old
               /\ a.newPrice = new.price
               /\ a.changeAmount = new.price - old
               /\ a.timestamp = new.timestamp
               /\ a.changePercentage.den > 0
               /\ old > 0 =>
                     RatioEq(a.changePercentage, Ratio((new.price - old) * 100, old))
               /\ old <= 0 => RatioEq(a.changePercentage, Ratio(0, 1))]_vars

\* the latest call returned an alert for a price that fell from 2 to 1, a
\* change of -50 percent.
C17_Witness ==
    /\ alert # <<>>
    /\ alert[1].oldPrice = 2 /\ alert[1].newPrice = 1
    /\ alert[1].changeAmount = -1
    /\ RatioEq(alert[1].changePercentage, Ratio(-50, 1))

\* C18: a key's series never holds more than 1000 entries, and it holds the
\* entries added last, in the order they were added.
C18_SeriesCapped ==
    \A k \in PriceKeys :
        LET all == added[k]
            kept == Min(Len(all), 1000)
            series == getPriceHistory(PH, k[1], k[2], <<>>)
        IN /\ Len(series) <= 1000
           /\ series = SubSeq(all, Len(all) - kept + 1, Len(all))

\* 1002 entries have been added to a key: its series holds 1000 of them,
\* starting with the third.
C18_Witness ==
    LET k == getKey("B01", "DE")
    IN /\ Len(added[k]) = 1002
       /\ Len(history[k]) = 1000
       /\ history[k][1].price = 3
       /\ history[k][1000].price = 1002

\* C19: clearHistory for a key leaves getPriceHistory empty and getLastPrice
\* null for that key, the next addPriceEntry for it returns no alert, and the
\* series and last prices of the other keys are as before.  Stated for the
\* call on every reachable manager, and for the steps that remove a key.
C19_ClearHistoryRemovesKey ==
    /\ [](\A k \in PriceKeys :
            LET ph2 == clearHistory(PH, k[1], k[2])
            IN /\ getPriceHistory(ph2, k[1], k[2], <<>>) = <<>>
               /\ getLastPrice(ph2, k[1], k[2]) = <<>>
               /\ \A p \in Prices :
                     addPriceEntry(ph2, [asin |-> k[1], marketplace |-> k[2],
                                         price |-> p, timestamp |-> now]).alert = <<>>
               /\ \A j \in PriceKeys \ {k} :
                     /\ getPriceHistory(ph2, j[1], j[2], <<>>)
                           = getPriceHistory(PH, j[1], j[2], <<>>)
                     /\ getLastPrice(ph2, j[1], j[2]) = getLastPrice(PH, j[1], j[2]))
    /\ [][\A k \in PriceKeys :
            (added[k] # <<>> /\ added'[k] = <<>>) =>
                /\ k \notin DOMAIN history' /\ k \notin DOMAIN lastPrices'
                /\ (DOMAIN history' # {}) =>
                      \A j \in PriceKeys \ {k} : added'[j] = added[j]]_vars

\* the latest call returned an alert for a key that has since been cleared,
\* while another key still holds the two entries it had.
C19_Witness ==
    /\ alert # <<>>
    /\ getKey(alert[1].asin, alert[1].marketplace) \notin DOMAIN history
    /\ getKey(alert[1].asin, alert[1].marketplace) \notin DOMAIN lastPrices
    /\ \E j \in DOMAIN history : Len(history[j]) = 2 /\ lastPrices[j] = history[j][2].price

\* C20: for any number of days, the default included, getAveragePrice,
\* getLowestPrice and getHighestPrice return null when the key has no entry
\* dated at or after the clock set back by that number of days.
DaysSamples == {0, 1, DefaultDays}

C20_NullOutsideWindow ==
    \A k \in PriceKeys, days \in DaysSamples :
        LET series == getPriceHistory(PH, k[1], k[2], <<>>)
            inWindow == {i \in 1..Len(series) : series[i].timestamp >= now - days}
        IN inWindow = {} =>
            /\ getAveragePrice(PH, k[1], k[2], days, now) = <<>>
            /\ getLowestPrice(PH, k[1], k[2], days, now) = <<>>
            /\ getHighestPrice(PH, k[1], k[2], days, now) = <<>>

\* a key holds entries, the latest of them dated 31 days back: the queries
\* over the default 30 days return null.
C20_Witness ==
    LET k == getKey("B01", "DE")
    IN /\ k \in DOMAIN history
       /\ Len(history[k]) = 2
       /\ now = 31
       /\ \A i \in 1..Len(history[k]) : history[k][i].timestamp = 0
       /\ getLowestPrice(PH, k[1], k[2], DefaultDays, now) = <<>>
       /\ getAveragePrice(PH, k[1], k[2], DefaultDays, now) = <<>>
       /\ getHighestPrice(PH, k[1], k[2], DefaultDays, now) = <<>>

\* the prices of the entries of a series at the positions in idx, added up.
RECURSIVE SumAt(_, _)
SumAt(series, idx) ==
    IF idx = {} THEN 0
    ELSE LET i == CHOOSE j \in idx : TRUE
         IN series[i].price + SumAt(series, idx \ {i})

\* C21: when a key has n >= 1 entries dated inside the window, getAveragePrice
\* returns the sum of their prices divided by n, getLowestPrice the least and
\* getHighestPrice the greatest of their prices; entries outside the window
\* do not count.
C21_WindowStatistics ==
    \A k \in PriceKeys, days \in DaysSamples :
        LET series == getPriceHistory(PH, k[1], k[2], <<>>)
            inWindow == {i \in 1..Len(series) : series[i].timestamp >= now - days}
            inPrices == {series[i].price : i \in inWindow}
            avg == getAveragePrice(PH, k[1], k[2], days, now)
            low == getLowestPrice(PH, k[1], k[2], days, now)
            high == getHighestPrice(PH, k[1], k[2], days, now)
        IN inWindow # {} =>
            /\ avg # <<>> /\ avg[1].den > 0
            /\ RatioEq(avg[1], Ratio(SumAt(series, inWindow), Cardinality(inWindow)))
            /\ low # <<>> /\ low[1] \in inPrices
            /\ \A p \in inPrices : low[1] <= p
            /\ high # <<>> /\ high[1] \in inPrices
            /\ \A p \in inPrices : high[1] >= p

\* 100, 90 and 95 were recorded for one key on the day of the queries: the
\* average over the default window is 95, the lowest 90, the highest 100.
C21_Witness ==
    LET k == getKey("B01", "DE")
    IN /\ k \in DOMAIN history
       /\ [i \in 1..Len(history[k]) |-> history[k][i].price] = <<100, 90, 95>>
       /\ \A i \in 1..Len(history[k]) : history[k][i].timestamp = now
       /\ RatioEq(getAveragePrice(PH, k[1], k[2], DefaultDays, now)[1], Ratio(95, 1))
       /\ getLowestPrice(PH, k[1], k[2], DefaultDays, now) = <<90>>
       /\ getHighestPrice(PH, k[1], k[2], DefaultDays, now) = <<100>>

(* ------------------------- properties: classifier ---------------------- *)
\* The metrics satisfy the four bounds of a band, all of them inclusive; an
\* upper bound that is not there bounds nothing.
Matches(band, m) ==
    /\ m.margin.num >= band.minMargin * m.margin.den
    /\ band.maxMargin = <<>> \/ m.margin.num <= band.maxMargin[1] * m.margin.den
    /\ m.roi.num >= band.minRoi * m.roi.den
    /\ band.maxRoi = <<>> \/ m.roi.num <= band.maxRoi[1] * m.roi.den

\* The first of High, Medium, Low whose band the metrics satisfy, and Low
\* when there is none.
FirstMatch(bands, m) ==
    IF Matches(bands["high"], m) THEN "high"
    ELSE IF Matches(bands["medium"], m) THEN "medium"
    ELSE "low"

C23_QualifiesIffSomeBandMatches ==
    \A m \in ClassifierMetrics :
        LET r == classify(tierConfigs, m)
            some == \E t \in Tiers : Matches(tierConfigs[t], m)
        IN /\ r.qualifies <=> some
           /\ ~some => r = [tier |-> "low", qualifies |-> FALSE]

\* the latest classify call, for a margin of 60 and an ROI of 120 that no
\* band in force holds, returned Low and not qualifying.
C23_Witness ==
    /\ classification # <<>>
    /\ classification.metrics = [margin |-> Num(60), roi |-> Num(120)]
    /\ \A t \in Tiers : ~Matches(tierConfigs[t], classification.metrics)
    /\ classification.result = [tier |-> "low", qualifies |-> FALSE]

\* The band a config asks for: the bounds it holds, and no upper bound where
\* it holds none.
Band(cfg) == [f \in BandFields |-> IF f \in DOMAIN cfg THEN cfg[f] ELSE <<>>]

\* C24: a classify call decides against the bands of the configs last passed
\* for each tier, by updateTierConfig or updateTierConfigs or, failing
\* those, at construction.
C24_Original ==
    [][classification' # classification =>
          LET bands == [t \in Tiers |-> Band(requested[t])]
              m == classification'.metrics
          IN /\ classification'.result.tier = FirstMatch(bands, m)
             /\ classification'.result.qualifies
                   <=> \E t \in Tiers : Matches(bands[t], m)]_vars

(* --------------------------- properties: fees -------------------------- *)
\* The five fees a FeeBreakdown itemizes, added up.
Itemized(fees) ==
    fees.referralFee + fees.fulfillmentFee + fees.storageFee + fees.vat
        + fees.shippingCost

\* The FeeBreakdown the latest call returned, alone or inside a deal, and
\* the isMedia argument that calculateFees was given for it.
ReturnedFees ==
    IF outcome = <<>> THEN <<>>
    ELSE IF outcome.op = "calculateFees"
    THEN <<[fees |-> outcome.value, isMedia |-> outcome.params.isMedia]>>
    ELSE IF outcome.op = "analyze"
    THEN <<[fees |-> outcome.value.feeBreakdown,
            isMedia |-> IF optionsList[1].isMedia = <<>> THEN <<FALSE>>
                        ELSE optionsList[1].isMedia]>>
    ELSE <<>>

C26_ClosingFeeOnlyForMedia ==
    (outcome # <<>> /\ outcome.op = "calculateFees") =>
        LET fees == outcome.value
            params == outcome.params
        IN /\ params.isMedia = <<TRUE>> =>
                 /\ fees.total > Itemized(fees)
                 /\ fees.total - Itemized(fees) = CLOSING_FEES[params.marketplace]
           /\ params.isMedia \in {<<>>, <<FALSE>>} =>
                 fees.total - Itemized(fees) = 0

\* calculateFees returned for the 100 EUR product in DE, FBA, with isMedia
\* true: the itemized fees add up to 37.32 EUR and the total is 38.31 EUR.
C26_Witness ==
    /\ outcome # <<>>
    /\ outcome.op = "calculateFees"
    /\ outcome.params.isMedia = <<TRUE>>
    /\ outcome.params.salePrice = Eur(100, 0)
    /\ Itemized(outcome.value) = Eur(37, 32)
    /\ outcome.value.total = Eur(38, 31)

(* -------------------------- properties: analyzer ----------------------- *)
\* C27: in the deal that analyze returns, metrics.totalFees is the total of
\* its fee breakdown, profit is the sale price less the cost price less the
\* total fees, margin is profit / salePrice * 100, and 0 when the sale price
\* is not positive, and roi is profit / costPrice * 100, and 0 when the cost
\* price is not positive; nothing is divided by zero.
C27_DealMetrics ==
    (outcome # <<>> /\ outcome.op = "analyze") =>
        LET deal == outcome.value
            metrics == deal.metrics
            salePrice == products[1].price
            costPrice == optionsList[1].costPrice
        IN /\ metrics.salePrice = salePrice
           /\ metrics.costPrice = costPrice
           /\ metrics.totalFees = deal.feeBreakdown.total
           /\ metrics.profit = salePrice - costPrice - metrics.totalFees
           /\ metrics.margin.den > 0 /\ metrics.roi.den > 0
           /\ salePrice > 0 => metrics.margin = Ratio(metrics.profit * 100, salePrice)
           /\ salePrice <= 0 => metrics.margin.num = 0
           /\ costPrice > 0 => metrics.roi = Ratio(metrics.profit * 100, costPrice)
           /\ costPrice <= 0 => metrics.roi.num = 0

\* analyze returned a deal for a sale price of 100 EUR and a cost price of
\* 50 EUR, DE, FBA: total fees 37.32, profit 12.68, a margin of 12.68 and an
\* ROI of 25.36 percent.
C27_Witness ==
    /\ outcome # <<>>
    /\ outcome.op = "analyze"
    /\ outcome.value.metrics.salePrice = Eur(100, 0)
    /\ outcome.value.metrics.costPrice = Eur(50, 0)
    /\ outcome.value.metrics.totalFees = Eur(37, 32)
    /\ outcome.value.metrics.profit = Eur(12, 68)
    /\ outcome.value.metrics.margin = Ratio(Eur(1268, 0), Eur(100, 0))
    /\ outcome.value.metrics.roi = Ratio(Eur(1268, 0), Eur(50, 0))

\* C28: analyzeBatch with lists of different lengths throws and has analyzed
\* no product; with lists of the same length it returns one deal for each
\* product, in the order of the products, the i-th deal being the analysis
\* of the i-th product under the i-th options.
C28_BatchAllOrNothing ==
    (outcome # <<>> /\ outcome.op = "analyzeBatch") =>
        LET r == outcome.value
        IN /\ Len(products) # Len(optionsList) =>
                 /\ r.threw
                 /\ r.deals = <<>>
                 /\ r.analyzed = 0
           /\ Len(products) = Len(optionsList) =>
                 /\ ~r.threw
                 /\ Len(r.deals) = Len(products)
                 /\ r.analyzed = Len(products)
                 /\ \A i \in 1..Len(products) :
                       /\ r.deals[i].product = products[i]
                       /\ r.deals[i].metrics.salePrice = products[i].price
                       /\ r.deals[i].metrics.costPrice = optionsList[i].costPrice
                       /\ r.deals[i].fulfillmentType = optionsList[i].fulfillmentType
                       /\ r.deals[i] = analyze(tierConfigs, products[i], optionsList[i])

\* analyzeBatch was called with two products and one set of options: it
\* threw, and no product was analyzed.
C28_Witness ==
    /\ outcome # <<>>
    /\ outcome.op = "analyzeBatch"
    /\ Len(products) = 2 /\ Len(optionsList) = 1
    /\ outcome.value = [threw |-> TRUE, deals |-> <<>>, analyzed |-> 0]

\* The sequence a made of entries of b, taken in the order b has them.
IsSubSeq(a, b) ==
    \E at \in [1..Len(a) -> 1..Len(b)] :
        /\ \A i, j \in 1..Len(a) : i < j => at[i] < at[j]
        /\ \A i \in 1..Len(a) : a[i] = b[at[i]]

\* The filter g is the filter f with at most one criterion relaxed or removed:
\* a lower minimum, a higher maximum (for the sales rank, no bound at all, 0,
\* is the highest), or more allowed marketplaces.
RelaxesOne(g, f) ==
    /\ Cardinality({k \in DOMAIN f : g[k] # f[k]}) <= 1
    /\ g.minMargin <= f.minMargin
    /\ g.minRoi <= f.minRoi
    /\ g.minProfit <= f.minProfit
    /\ g.maxPrice >= f.maxPrice
    /\ g.minRating <= f.minRating
    /\ g.maxSalesRank = 0 \/ (f.maxSalesRank > 0 /\ g.maxSalesRank >= f.maxSalesRank)
    /\ SeqToSet(f.marketplaces) \subseteq SeqToSet(g.marketplaces)

\* C29: for a fixed list of deals, what filter returns under a filter is
\* contained, entry by entry and in order, in what it returns under the same
\* filter with one criterion relaxed or removed: the result never shrinks.
C29_RelaxingGrowsResult ==
    (outcome # <<>> /\ outcome.op = "filter") =>
        \A g \in FilterSamples :
            RelaxesOne(g, dealFilter) =>
                /\ IsSubSeq(outcome.value, filter(deals, g))
                /\ Len(outcome.value) <= Len(filter(deals, g))

\* A filter call that kept one of two deals, and a filter with one criterion
\* relaxed that keeps both.
C29_Witness ==
    /\ outcome # <<>>
    /\ outcome.op = "filter"
    /\ Len(deals) = 2
    /\ Len(outcome.value) = 1
    /\ \E g \in FilterSamples :
           RelaxesOne(g, dealFilter) /\ g # dealFilter /\ filter(deals, g) = deals

\* The seven criteria as the filter's documentation states them.
Wanted(deal, criteria) ==
    /\ deal.metrics.margin.num >= criteria.minMargin * deal.metrics.margin.den
    /\ deal.metrics.roi.num >= criteria.minRoi * deal.metrics.roi.den
    /\ deal.metrics.profit >= criteria.minProfit
    /\ deal.product.price <= criteria.maxPrice
    /\ deal.product.rating >= criteria.minRating
    /\ \E i \in 1..Len(criteria.marketplaces) :
           criteria.marketplaces[i] = deal.product.marketplace
    /\ criteria.maxSalesRank = 0 \/ deal.product.salesRank <= criteria.maxSalesRank

WantedAt(ds, criteria) == {i \in 1..Len(ds) : Wanted(ds[i], criteria)}

\* C30: a filter call leaves the list it was handed as it was and returns
\* exactly the deals of the list that meet all seven criteria, in the order
\* of the list; a maxSalesRank of 0 puts no bound on the sales rank.
C30_FilterReturnsWantedInOrder ==
    [][(outcome' # outcome /\ outcome' # <<>> /\ outcome'.op = "filter") =>
          LET at == WantedAt(deals, dealFilter)
              result == outcome'.value
          IN /\ deals' = deals
             /\ dealFilter' = dealFilter
             /\ Len(result) = Cardinality(at)
             /\ \A k \in 1..Len(result) :
                    \E i \in at : /\ Cardinality({j \in at : j < i}) = k - 1
                                  /\ result[k] = deals[i]]_vars

\* A filter without a sales-rank bound kept a deal of sales rank 2000 and
\* dropped the deal after it.
C30_Witness ==
    /\ outcome # <<>>
    /\ outcome.op = "filter"
    /\ dealFilter.maxSalesRank = 0
    /\ Len(deals) = 2
    /\ deals[1].product.salesRank = 2000
    /\ outcome.value = <<deals[1]>>

\* A filter with a bound that cannot be meant: a negative minimum or maximum.
InvalidBounds(criteria) ==
    \/ criteria.minMargin < 0
    \/ criteria.minRoi < 0
    \/ criteria.minProfit < 0
    \/ criteria.maxPrice < 0
    \/ criteria.minRating < 0
    \/ criteria.maxSalesRank < 0

\* C31: a filter call with invalid bounds ends with an error; it never
\* returns a result list.
C31_Original ==
    (outcome # <<>> /\ outcome.op = "filter" /\ InvalidBounds(dealFilter)) =>
        outcome.threw

\* The key a sorting call orders by, and whether it orders downwards.
SortKeyOf(o) ==
    CASE o.op = "sortByMargin" -> "margin"
      [] o.op = "sortByRoi" -> "roi"
      [] o.op = "sortByProfit" -> "profit"
      [] o.op = "sortByPrice" -> "price"
      [] o.op = "sortBySalesRank" -> "salesRank"
      [] o.op = "sortByRating" -> "rating"
      [] o.op = "getTopDeals" -> o.arg[2]

SortsDownwards(o) ==
    CASE o.op = "sortBySalesRank" -> ~o.arg
      [] o.op = "getTopDeals" -> TRUE
      [] OTHER -> o.arg

\* The deal a has a smaller key than the deal b.
KeyLess(sortKey, a, b) ==
    CASE sortKey = "margin" -> RatioLt(a.metrics.margin, b.metrics.margin)
      [] sortKey = "roi" -> RatioLt(a.metrics.roi, b.metrics.roi)
      [] sortKey = "profit" -> a.metrics.profit < b.metrics.profit
      [] sortKey = "price" -> a.product.price < b.product.price
      [] sortKey = "salesRank" -> a.product.salesRank < b.product.salesRank
      [] sortKey = "rating" -> a.product.rating < b.product.rating

\* The arrangement p of the positions of ds is the stable sort of ds by the
\* key: keys never go against the direction, and positions with equal keys
\* keep their order.
IsStableOrder(p, ds, sortKey, downwards) ==
    \A i, j \in 1..Len(ds) :
        i < j =>
            /\ IF downwards THEN ~KeyLess(sortKey, ds[p[i]], ds[p[j]])
                            ELSE ~KeyLess(sortKey, ds[p[j]], ds[p[i]])
            /\ (/\ ~KeyLess(sortKey, ds[p[i]], ds[p[j]])
                /\ ~KeyLess(sortKey, ds[p[j]], ds[p[i]])) => p[i] < p[j]

SortOps ==
    {"sortByMargin", "sortByRoi", "sortByProfit", "sortByPrice",
     "sortBySalesRank", "sortByRating"}

\* C32: a sortBy call leaves its input list as it was and returns the deals
\* of the list rearranged so that the chosen key runs in the requested
\* direction and deals with equal keys keep their input order; getTopDeals
\* returns the first min(n, number of deals) entries of that arrangement for
\* the descending order of the metric.
C32_StableSortAndTop ==
    [][(outcome' # outcome /\ outcome' # <<>>
           /\ outcome'.op \in SortOps \cup {"getTopDeals"}) =>
          LET o == outcome'
              n == Len(deals)
              kept == IF o.op = "getTopDeals" THEN Min(o.arg[1], n) ELSE n
          IN /\ deals' = deals
             /\ Len(o.value) = kept
             /\ \E p \in Permutations(1..n) :
                    /\ IsStableOrder(p, deals, SortKeyOf(o), SortsDownwards(o))
                    /\ \A i \in 1..kept : o.value[i] = deals[p[i]]]_vars

\* A descending sort by margin that moved the deal of margin 40 to the front
\* and kept two different deals of margin 30 in their input order.
C32_Witness ==
    /\ outcome # <<>>
    /\ outcome.op = "sortByMargin"
    /\ outcome.arg
    /\ Len(deals) = 3
    /\ deals[1] # deals[2]
    /\ deals[1].metrics.margin = Num(30)
    /\ deals[2].metrics.margin = Num(30)
    /\ deals[3].metrics.margin = Num(40)
    /\ outcome.value = <<deals[3], deals[1], deals[2]>>

\* The fulfillment type and the weight the latest fee computation was asked for.
FeeCall ==
    IF outcome # <<>> /\ outcome.op \in {"calculateFees", "analyze"}
    THEN <<[fees |-> ReturnedFees[1].fees,
            fulfillmentType |-> optionsList[1].fulfillmentType,
            weight |-> optionsList[1].productWeight]>>
    ELSE <<>>

\* C33: a merchant-fulfilled (FBM) breakdown has no fulfillment fee and no
\* storage fee and a shipping cost above zero that grows with the weight
\* (3.50, plus 1.50 for every kilogram above half a kilogram); a
\* network-fulfilled (FBA) breakdown has no shipping cost and has a fulfillment
\* fee and a storage fee above zero.
C33_FulfillmentTypeSplitsFees ==
    FeeCall # <<>> =>
        LET c == FeeCall[1]
            heavy == c.weight # <<>> /\ c.weight[1] > 5
        IN IF c.fulfillmentType = "FBM"
           THEN /\ c.fees.fulfillmentFee = 0
                /\ c.fees.storageFee = 0
                /\ c.fees.shippingCost > 0
                /\ ~heavy => c.fees.shippingCost = Eur(3, 50)
                /\ heavy => 10 * (c.fees.shippingCost - Eur(3, 50))
                                = (c.weight[1] - 5) * Eur(1, 50)
           ELSE /\ c.fees.shippingCost = 0
                /\ c.fees.fulfillmentFee > 0
                /\ c.fees.storageFee > 0

\* A merchant-fulfilled product of 2 kg: no fulfillment fee, no storage fee,
\* 5.75 of shipping.
C33_Witness ==
    /\ FeeCall # <<>>
    /\ outcome.op = "calculateFees"
    /\ FeeCall[1].fulfillmentType = "FBM"
    /\ FeeCall[1].weight = <<20>>
    /\ optionsList[1].productDimensions # <<>>
    /\ outcome.value.fulfillmentFee = 0
    /\ outcome.value.storageFee = 0
    /\ outcome.value.shippingCost = Eur(5, 75)

\* The last n entries of a sequence, all of them when it has fewer.
LastN(s, n) == SubSeq(s, Len(s) - Min(n, Len(s)) + 1, Len(s))

RECURSIVE SumUpTo(_, _)
SumUpTo(s, k) == IF k = 0 THEN 0 ELSE s[k] + SumUpTo(s, k - 1)

\* C34: getAverageTaskDuration returns the sum of the durations of the most
\* recent 100 completions (of all when there are fewer) divided by their
\* number, and 0 when nothing has completed; a task that failTask marked
\* failed adds no duration.
C34_AverageOfRecentCompletions ==
    LET recent == LastN(durationLog, 100)
    IN getAverageTaskDuration(TQ) =
           IF recent = <<>> THEN Num(0)
           ELSE Ratio(SumUpTo(recent, Len(recent)), Len(recent))

\* After 101 completions and one terminal failure the average is taken over
\* the last 100 completions.
C34_Witness ==
    /\ Len(durationLog) = 101
    /\ Len(taskDurations) = 100
    /\ \E t \in DOMAIN tasks : tasks[t].status = "failed"
    /\ \E t \in DOMAIN tasks : tasks[t].status = "completed"
    /\ durationLog[101] = 50
    /\ getAverageTaskDuration(TQ) = Ratio(2020, 100)

\* The most attempts a task of the given maxRetries gets: one at least.
Attempts(maxRetries) == IF maxRetries = 0 THEN 1 ELSE maxRetries

\* C35 as stated: every task's retryCount is at most its maxRetries, and it
\* has been dequeued at most maxRetries times (once when maxRetries is 0).
C35_Original ==
    \A t \in DOMAIN tasks :
        /\ tasks[t].retryCount <= tasks[t].maxRetries
        /\ handedOut[t] <= Attempts(tasks[t].maxRetries)

\* C35: every task's retryCount is the number of its failures and is at most
\* its maxRetries, or 1 when maxRetries is 0 (the first failure is counted
\* before it is compared); the task has been dequeued at most maxRetries
\* times, once when maxRetries is 0.
C35_RetriesBounded ==
    \A t \in DOMAIN tasks :
        /\ tasks[t].retryCount = failures[t]
        /\ tasks[t].retryCount <= Attempts(tasks[t].maxRetries)
        /\ handedOut[t] <= Attempts(tasks[t].maxRetries)

\* A task of maxRetries 0 after its one attempt failed: retryCount is 1.
C35_Witness ==
    \E t \in DOMAIN tasks :
        /\ tasks[t].maxRetries = 0
        /\ tasks[t].status = "failed"
        /\ tasks[t].retryCount = 1
        /\ handedOut[t] = 1

\* C36: at any moment at most min(batchSize, maxConcurrentScrapes) tasks are
\* Running, also while runCycle invocations overlap.
C36_Original ==
    Cardinality(runningTasks) <= Min(config.batchSize, config.maxConcurrentScrapes)

\* Ids to call with: those of the tasks a run can create and one that no
\* task has.
CallIds == TaskIds \cup {MaxTasks + 1}

\* C37: in every reachable state, completeTask and failTask called with an id
\* that is not in the running map (no task's id, or the id of a pending, a
\* completed or a failed task, also after clearAll) return with the queue as
\* it was: pending list, running map, retained results, every task's fields
\* and the recorded durations.
C37_NotRunningChangesNothing ==
    \A id \in CallIds \ runningTasks :
        /\ \A d \in DurationSamples :
               completeTask(TQ, id, [success |-> TRUE], d) = TQ
        /\ \A e \in Errors : failTask(TQ, id, e) = TQ

\* A queue holding a pending, a completed and a failed task and none
\* running, after one task was completed and another failed for good.
C37_Witness ==
    /\ runningTasks = {}
    /\ \E t, u, v \in DOMAIN tasks :
           /\ tasks[t].status = "pending"
           /\ tasks[u].status = "completed"
           /\ tasks[v].status = "failed"
           /\ u \in DOMAIN completedTasks
           /\ v \in DOMAIN completedTasks
    /\ Len(taskDurations) = 1

\* C38: in every reachable state of the PriceHistoryManager the series map
\* and the last-price map have the same keys, every series in the map holds
\* an entry, and a key's last price is the price of the last entry of its
\* series.
C38_LastPriceMatchesSeries ==
    /\ DOMAIN history = DOMAIN lastPrices
    /\ \A k \in DOMAIN history :
           /\ Len(history[k]) >= 1
           /\ lastPrices[k] = history[k][Len(history[k])].price

\* One key cleared after it had entries, another holding two entries of
\* different prices.
C38_Witness ==
    /\ added[getKey("B01", "DE")] = <<>>
    /\ getKey("B01", "DE") \notin DOMAIN history
    /\ getKey("B01", "FR") \in DOMAIN history
    /\ getKey("B02", "DE") \in DOMAIN history
    /\ LET series == history[getKey("B02", "DE")]
       IN /\ Len(series) = 2
          /\ series[1].price # series[2].price
          /\ lastPrices[getKey("B02", "DE")] = series[2].price

\* The processTask of category task t in invocation c gets its scraper's
\* answer in this step.
CategoryDispatchSettles(c, t) ==
    /\ t \in DOMAIN tasks
    /\ tasks[t].type = "category"
    /\ proc[c][t].pc = "scraping"
    /\ proc'[c][t].pc # "scraping"

\* C39: a dispatch of a category task that fails creates no task; a dispatch
\* that creates product tasks takes the category task from Running to
\* Completed in the same step, and a Completed task stays Completed and is
\* never handed out again.  So the product tasks of a category task are
\* created by at most one of its dispatches.
C39_CategoryEnqueuesOnce ==
    [][/\ \A c \in Cycles, t \in TaskIds :
             CategoryDispatchSettles(c, t) =>
                 /\ proc'[c][t].fails > proc[c][t].fails =>
                        /\ DOMAIN tasks' = DOMAIN tasks
                        /\ SeqToSet(queue') \subseteq SeqToSet(queue) \cup {t}
                 /\ DOMAIN tasks' # DOMAIN tasks =>
                        /\ Status(t) = "running"
                        /\ tasks'[t].status = "completed"
                        /\ t \notin runningTasks'
                        /\ t \notin SeqToSet(queue')
       /\ \A t \in DOMAIN tasks :
             Status(t) = "completed" =>
                 /\ tasks'[t].status = "completed"
                 /\ handedOut'[t] = handedOut[t]]_vars

\* A category task that failed once, was dispatched again and completed with
\* one product task discovered: that product task exists once.
C39_Witness ==
    \E t \in DOMAIN tasks :
        /\ tasks[t].type = "category"
        /\ tasks[t].status = "completed"
        /\ tasks[t].retryCount = 1
        /\ handedOut[t] = 2
        /\ Cardinality({u \in DOMAIN tasks : tasks[u].type = "product"}) = 1

\* C40: whenever getStats is called, its failedTasks is the number of tasks
\* that are Failed, so it is not negative, and its completedTasks is the
\* number of tasks that are Completed.
C40_Original ==
    LET st == getStats(TQ, stats)
    IN /\ st.failedTasks = Cardinality({t \in DOMAIN tasks : Status(t) = "failed"})
       /\ st.failedTasks >= 0
       /\ st.completedTasks =
              Cardinality({t \in DOMAIN tasks : Status(t) = "completed"})

====
